---------------------------- MODULE Spec2Model ----------------------------
(***************************************************************************)
(* A model of parts of the Flax engine tooling:                            *)
(*   - FlaxEditor.Modules.EditorCacheModule (the editor's key/value cache  *)
(*     and its EditorCache.dat file),                                      *)
(*   - Flax.Build.Platform (platform list, toolchain cache, support table),*)
(*   - Flax.Build.Platforms.WindowsPlatformBase (registry probing, Windows *)
(*     SDK and MSVC toolset discovery).                                    *)
(* C# strings are sequences of UTF-16 code units (integers); a nullable    *)
(* string is a record [null, chars].                                       *)
(***************************************************************************)
EXTENDS Integers, Sequences, FiniteSets, TLC

VARIABLES
    \* ---- EditorCacheModule ----
    _customData,    \* Dictionary<string,string>: function key chars -> nullable string
    _isDirty,       \* bool
    cacheFile,      \* EditorCache.dat: [exists, bytes]
    pc,             \* life cycle of the module object: "constructed", "running", "exited"
    lastOp,         \* the last call made on the module and whether it threw
    lastSaved,      \* history: what the last OnExit of the previous session wrote
    \* ---- the build host ----
    registry,       \* Windows registry: <<root, key suffix, value name>> -> value
    sdkDirs,        \* directories the registry may name: [has81Header, include]
    vsInstances,    \* VisualStudioInstance.GetInstances(): sequence of [Version, Path, vc]
    assembly,       \* typeof(Platform).Assembly.GetTypes(): sequence of types
    gpu,            \* shader resources and constants bound for a dispatch
    \* ---- Flax.Build statics ----
    _sdks,          \* WindowsPlatformBase._sdks: [null, dict]
    _toolsets,      \* WindowsPlatformBase._toolsets: [null, dict]
    _platforms,     \* Platform._platforms: [null, list]
    Sdk_sdks,       \* Sdk._sdks: [null, dict, builds]
    ret             \* the last Flax.Build call and what it returned

cacheVars == <<_customData, _isDirty, cacheFile, pc, lastOp, lastSaved>>

hostVars == <<registry, sdkDirs, vsInstances, assembly, gpu>>

buildVars == <<_sdks, _toolsets, _platforms, Sdk_sdks, ret>>

vars == <<cacheVars, hostVars, buildVars>>

-----------------------------------------------------------------------------
(* Strings *)

Null == [null |-> TRUE, chars |-> <<>>]

Str(s) == [null |-> FALSE, chars |-> s]

\* "True" and "False", the results of bool.ToString()
TrueString == <<84, 114, 117, 101>>

FalseString == <<70, 97, 108, 115, 101>>

\* Sample keys: "k" and the Greek letter kappa (two UTF-8 bytes)
KeySamples == { <<107>>, <<954>> }

\* Sample values: null, "", "True", "False", " fALSE" followed by a tab,
\* "1", e-acute followed by U+1F600 (a surrogate pair), a lone high surrogate
ValueSamples ==
    { Null,
      Str(<<>>),
      Str(TrueString),
      Str(FalseString),
      Str(<<32, 102, 65, 76, 83, 69, 9>>),
      Str(<<233, 55357, 56832>>),
      Str(<<55357>>) }

NullableKeys == { Str(k) : k \in KeySamples } \cup { Null }

-----------------------------------------------------------------------------
(* System.Text.UTF8Encoding as BinaryWriter and BinaryReader use it *)

IsHighSurrogate(c) == c >= 55296 /\ c <= 56319

IsLowSurrogate(c) == c >= 56320 /\ c <= 57343

\* UTF8Encoding(false, throwOnInvalidBytes: true).GetBytes: [ok, bytes]; ok is
\* FALSE where the encoder throws EncoderFallbackException (a lone surrogate)
RECURSIVE Utf8Encode(_)
Utf8Encode(s) ==
    IF s = <<>> THEN [ok |-> TRUE, bytes |-> <<>>]
    ELSE LET c == Head(s) IN
         IF IsHighSurrogate(c)
         THEN IF Len(s) >= 2 /\ IsLowSurrogate(s[2])
              THEN LET cp == 65536 + (c - 55296) * 1024 + (s[2] - 56320)
                       rest == Utf8Encode(Tail(Tail(s)))
                   IN [ok |-> rest.ok,
                       bytes |-> <<240 + (cp \div 262144), 128 + ((cp \div 4096) % 64),
                                   128 + ((cp \div 64) % 64), 128 + (cp % 64)>> \o rest.bytes]
              ELSE [ok |-> FALSE, bytes |-> <<>>]
         ELSE IF IsLowSurrogate(c) THEN [ok |-> FALSE, bytes |-> <<>>]
         ELSE LET rest == Utf8Encode(Tail(s))
                  enc == IF c < 128 THEN <<c>>
                         ELSE IF c < 2048 THEN <<192 + (c \div 64), 128 + (c % 64)>>
                         ELSE <<224 + (c \div 4096), 128 + ((c \div 64) % 64), 128 + (c % 64)>>
              IN [ok |-> rest.ok, bytes |-> enc \o rest.bytes]

IsContinuation(b, i) == i <= Len(b) /\ b[i] >= 128 /\ b[i] <= 191

\* UTF8Encoding.GetString with the replacement fallback: a malformed byte
\* decodes to U+FFFD
RECURSIVE Utf8Decode(_)
Utf8Decode(b) ==
    IF b = <<>> THEN <<>>
    ELSE LET c == Head(b) IN
         IF c < 128 THEN <<c>> \o Utf8Decode(Tail(b))
         ELSE IF c >= 194 /\ c <= 223 /\ IsContinuation(b, 2)
         THEN <<(c - 192) * 64 + (b[2] - 128)>> \o Utf8Decode(SubSeq(b, 3, Len(b)))
         ELSE IF c >= 224 /\ c <= 239 /\ IsContinuation(b, 2) /\ IsContinuation(b, 3)
         THEN <<(c - 224) * 4096 + (b[2] - 128) * 64 + (b[3] - 128)>>
              \o Utf8Decode(SubSeq(b, 4, Len(b)))
         ELSE IF c >= 240 /\ c <= 244 /\ IsContinuation(b, 2) /\ IsContinuation(b, 3)
                 /\ IsContinuation(b, 4)
         THEN LET cp == (c - 240) * 262144 + (b[2] - 128) * 4096
                        + (b[3] - 128) * 64 + (b[4] - 128) - 65536
              IN <<55296 + (cp \div 1024), 56320 + (cp % 1024)>>
                 \o Utf8Decode(SubSeq(b, 5, Len(b)))
         ELSE <<65533>> \o Utf8Decode(Tail(b))

-----------------------------------------------------------------------------
(* System.IO.BinaryWriter / BinaryReader *)

\* BinaryWriter.Write(int): four bytes, little endian, two's complement
\* (\div rounds down and % is never negative, which is the two's complement)
WriteInt32(n) ==
    <<n % 256, (n \div 256) % 256, (n \div 65536) % 256, (n \div 16777216) % 256>>

\* BinaryWriter.Write7BitEncodedInt
RECURSIVE Write7BitEncodedInt(_)
Write7BitEncodedInt(v) ==
    IF v >= 128 THEN <<128 + (v % 128)>> \o Write7BitEncodedInt(v \div 128)
    ELSE <<v>>

\* BinaryWriter.Write(string): [ok, bytes]; it throws (ok = FALSE) on null
\* and on a string the encoder rejects, before writing anything
WriteString(value) ==
    IF value.null THEN [ok |-> FALSE, bytes |-> <<>>]
    ELSE LET e == Utf8Encode(value.chars) IN
         IF e.ok THEN [ok |-> TRUE, bytes |-> Write7BitEncodedInt(Len(e.bytes)) \o e.bytes]
         ELSE [ok |-> FALSE, bytes |-> <<>>]

\* BinaryReader.ReadInt32 at position pos (1-based): [ok, val, pos];
\* ok = FALSE is EndOfStreamException. The top byte carries the sign.
ReadInt32(b, pos) ==
    IF pos + 3 > Len(b) THEN [ok |-> FALSE, val |-> 0, pos |-> pos]
    ELSE LET top == IF b[pos + 3] >= 128 THEN b[pos + 3] - 256 ELSE b[pos + 3]
         IN [ok |-> TRUE,
             val |-> b[pos] + 256 * b[pos + 1] + 65536 * b[pos + 2] + 16777216 * top,
             pos |-> pos + 4]

\* BinaryReader.Read7BitEncodedInt, n bytes read so far: [ok, val, pos].
\* A fifth byte with the high bit set is a FormatException; a fifth byte
\* other than 0 gives a length of 2^28 or more (or a negative one), which
\* ReadString cannot satisfy from a file of the model: both are ok = FALSE.
RECURSIVE Read7BitEncodedInt(_, _, _)
Read7BitEncodedInt(b, pos, n) ==
    IF pos > Len(b) THEN [ok |-> FALSE, val |-> 0, pos |-> pos]
    ELSE IF n = 4
         THEN [ok |-> b[pos] = 0, val |-> 0, pos |-> pos + 1]
         ELSE IF b[pos] >= 128
              THEN LET r == Read7BitEncodedInt(b, pos + 1, n + 1)
                   IN [ok |-> r.ok, val |-> (b[pos] - 128) + 128 * r.val, pos |-> r.pos]
              ELSE [ok |-> TRUE, val |-> b[pos], pos |-> pos + 1]

\* BinaryReader.ReadString: [ok, val, pos]; ok = FALSE when the length prefix
\* cannot be read or the stream ends before the string does
ReadString(b, pos) ==
    LET l == Read7BitEncodedInt(b, pos, 0) IN
    IF ~l.ok \/ l.pos + l.val - 1 > Len(b)
    THEN [ok |-> FALSE, val |-> <<>>, pos |-> pos]
    ELSE [ok |-> TRUE, val |-> Utf8Decode(SubSeq(b, l.pos, l.pos + l.val - 1)),
          pos |-> l.pos + l.val]

-----------------------------------------------------------------------------
(* System.Boolean *)

\* bool.ToString()
BoolToString(b) == IF b THEN Str(TrueString) ELSE Str(FalseString)

\* Upper-casing of the ordinal, case-insensitive comparison (the letters a-z)
ToUpperOrdinal(c) == IF c >= 97 /\ c <= 122 THEN c - 32 ELSE c

EqualsOrdinalIgnoreCase(a, b) ==
    /\ Len(a) = Len(b)
    /\ \A i \in 1..Len(a) : ToUpperOrdinal(a[i]) = ToUpperOrdinal(b[i])

\* char.IsWhiteSpace, plus the null character that bool.TryParse also trims
IsWhiteSpaceOrNull(c) ==
    c \in {0, 9, 10, 11, 12, 13, 32, 133, 160, 5760, 8232, 8233, 8239, 8287, 12288}
          \cup (8192..8202)

RECURSIVE TrimStart(_)
TrimStart(s) ==
    IF s # <<>> /\ IsWhiteSpaceOrNull(Head(s)) THEN TrimStart(Tail(s)) ELSE s

RECURSIVE TrimEnd(_)
TrimEnd(s) ==
    IF s # <<>> /\ IsWhiteSpaceOrNull(s[Len(s)]) THEN TrimEnd(SubSeq(s, 1, Len(s) - 1)) ELSE s

\* bool.TryParse(value, out result): [ok, result]
BoolTryParse(value) ==
    IF value.null THEN [ok |-> FALSE, result |-> FALSE]
    ELSE LET t == TrimEnd(TrimStart(value.chars)) IN
         IF EqualsOrdinalIgnoreCase(t, TrueString) THEN [ok |-> TRUE, result |-> TRUE]
         ELSE IF EqualsOrdinalIgnoreCase(t, FalseString) THEN [ok |-> TRUE, result |-> FALSE]
         ELSE [ok |-> FALSE, result |-> FALSE]

-----------------------------------------------------------------------------
(* System.Collections.Generic.Dictionary<string, string> *)

EmptyDict == [k \in {} |-> Null]

\* A faulty indexer that drops the other entries
DictSetDroppingOthers(d, k, v) == [x \in {k} |-> v]

DictSet(d, k, v) == [x \in DOMAIN d \cup {k} |-> IF x = k THEN v ELSE d[x]]

DictRemove(d, k) == [x \in DOMAIN d \ {k} |-> d[x]]

\* The orders in which a foreach may enumerate the keys of a dictionary
Orders(S) ==
    { o \in [1..Cardinality(S) -> S] : \A i, j \in 1..Cardinality(S) : o[i] = o[j] => i = j }

-----------------------------------------------------------------------------
(* EditorCacheModule: queries.  A null key makes the dictionary throw     *)
(* ArgumentNullException (threw = TRUE).                                   *)

HasCustomData(key) ==
    IF key.null THEN [threw |-> TRUE, ret |-> FALSE]
    ELSE [threw |-> FALSE, ret |-> key.chars \in DOMAIN _customData]

\* GetCustomData throws KeyNotFoundException for a key that is not present
GetCustomData(key) ==
    IF key.null \/ key.chars \notin DOMAIN _customData THEN [threw |-> TRUE, ret |-> Null]
    ELSE [threw |-> FALSE, ret |-> _customData[key.chars]]

\* TryGetCustomData(string key, out string value)
TryGetCustomData(key) ==
    IF key.null THEN [threw |-> TRUE, ret |-> FALSE, value |-> Null]
    ELSE IF key.chars \in DOMAIN _customData
         THEN [threw |-> FALSE, ret |-> TRUE, value |-> _customData[key.chars]]
         ELSE [threw |-> FALSE, ret |-> FALSE, value |-> Null]

\* A faulty overload that forgets the result of bool.TryParse
TryGetCustomDataBoolNoParse(key) ==
    IF key.null THEN [threw |-> TRUE, ret |-> FALSE, value |-> FALSE]
    ELSE IF key.chars \in DOMAIN _customData
         THEN LET p == BoolTryParse(_customData[key.chars])
              IN [threw |-> FALSE, ret |-> TRUE, value |-> p.result]
         ELSE [threw |-> FALSE, ret |-> FALSE, value |-> FALSE]

\* TryGetCustomData(string key, out bool value)
TryGetCustomDataBool(key) ==
    IF key.null THEN [threw |-> TRUE, ret |-> FALSE, value |-> FALSE]
    ELSE IF key.chars \in DOMAIN _customData
         THEN LET p == BoolTryParse(_customData[key.chars])
              IN [threw |-> FALSE, ret |-> p.ok, value |-> p.result]
         ELSE [threw |-> FALSE, ret |-> FALSE, value |-> FALSE]

-----------------------------------------------------------------------------
(* EditorCacheModule: the cache file *)

\* The loop of LoadGuarded (versions 2 and 3): reads `remaining` pairs from
\* position pos and adds them; Dictionary.Add throws on a key already present
RECURSIVE LoadEntries(_, _, _, _)
LoadEntries(b, pos, remaining, data) ==
    IF remaining <= 0 THEN [threw |-> FALSE, data |-> data]
    ELSE LET key == ReadString(b, pos) IN
         IF ~key.ok THEN [threw |-> TRUE, data |-> data]
         ELSE LET value == ReadString(b, key.pos) IN
              IF ~value.ok \/ key.val \in DOMAIN data THEN [threw |-> TRUE, data |-> data]
              ELSE LoadEntries(b, value.pos, remaining - 1,
                               DictSet(data, key.val, Str(value.val)))

\* LoadGuarded on the bytes of the file: [threw, data]
LoadGuarded(b, data) ==
    LET version == ReadInt32(b, 1) IN
    IF ~version.ok THEN [threw |-> TRUE, data |-> data]
    ELSE IF version.val = 1 THEN [threw |-> FALSE, data |-> EmptyDict]
    ELSE IF version.val \in {2, 3}
         THEN LET customDataCount == ReadInt32(b, version.pos) IN
              IF ~customDataCount.ok THEN [threw |-> TRUE, data |-> EmptyDict]
              ELSE LoadEntries(b, customDataCount.pos, customDataCount.val, EmptyDict)
         ELSE [threw |-> FALSE, data |-> data]

\* Load: a missing file leaves the data alone; an exception is logged
Load(file, data) ==
    IF ~file.exists THEN [threw |-> FALSE, data |-> data]
    ELSE LoadGuarded(file.bytes, data)

\* A faulty foreach that writes each value before its key
RECURSIVE SaveEntriesValueFirst(_, _, _)
SaveEntriesValueFirst(data, order, i) ==
    IF i > Len(order) THEN [ok |-> TRUE, bytes |-> <<>>]
    ELSE LET k == WriteString(Str(order[i]))
             v == WriteString(data[order[i]])
         IN IF ~v.ok THEN [ok |-> FALSE, bytes |-> <<>>]
            ELSE IF ~k.ok THEN [ok |-> FALSE, bytes |-> v.bytes]
            ELSE LET rest == SaveEntriesValueFirst(data, order, i + 1)
                 IN [ok |-> rest.ok, bytes |-> v.bytes \o k.bytes \o rest.bytes]

\* The foreach of SaveGuarded from entry i of the enumeration order:
\* [ok, bytes]; ok = FALSE when a Write threw, bytes is what was written
RECURSIVE SaveEntries(_, _, _)
SaveEntries(data, order, i) ==
    IF i > Len(order) THEN [ok |-> TRUE, bytes |-> <<>>]
    ELSE LET k == WriteString(Str(order[i]))
             v == WriteString(data[order[i]])
         IN IF ~k.ok THEN [ok |-> FALSE, bytes |-> <<>>]
            ELSE IF ~v.ok THEN [ok |-> FALSE, bytes |-> k.bytes]
            ELSE LET rest == SaveEntries(data, order, i + 1)
                 IN [ok |-> rest.ok, bytes |-> k.bytes \o v.bytes \o rest.bytes]

\* SaveGuarded: FileMode.Create truncates the file, the writer is disposed
\* (and flushed) also when a Write throws
SaveGuarded(data, order) ==
    LET e == SaveEntries(data, order, 1)
    IN [ok |-> e.ok,
        file |-> [exists |-> TRUE,
                  bytes |-> WriteInt32(3) \o WriteInt32(Cardinality(DOMAIN data)) \o e.bytes]]

-----------------------------------------------------------------------------
(* EditorCacheModule: operations *)

Call(op, key, value, threw) == [op |-> op, key |-> key, value |-> value, threw |-> threw]

NotSaved == [valid |-> FALSE, data |-> EmptyDict]

\* SetCustomData(string key, string value)
SetCustomData(key, value) ==
    /\ pc \in {"constructed", "running"}
    /\ IF key.null
       THEN UNCHANGED <<_customData, _isDirty>>
       ELSE /\ _customData' = DictSet(_customData, key.chars, value)
            /\ _isDirty' = TRUE
    /\ lastOp' = Call("SetCustomData", key, value, key.null)
    /\ UNCHANGED <<cacheFile, pc, lastSaved, hostVars, buildVars>>

\* SetCustomData(string key, bool value)
SetCustomDataBool(key, value) == SetCustomData(key, BoolToString(value))

\* A faulty RemoveCustomData that always marks the cache dirty
RemoveCustomDataAlwaysDirty(key) ==
    /\ pc \in {"constructed", "running"}
    /\ IF key.null
       THEN UNCHANGED <<_customData, _isDirty>>
       ELSE /\ _customData' = DictRemove(_customData, key.chars)
            /\ _isDirty' = TRUE
    /\ lastOp' = Call("RemoveCustomData", key, Null, key.null)
    /\ UNCHANGED <<cacheFile, pc, lastSaved, hostVars, buildVars>>

\* RemoveCustomData(string key)
RemoveCustomData(key) ==
    /\ pc \in {"constructed", "running"}
    /\ IF key.null
       THEN UNCHANGED <<_customData, _isDirty>>
       ELSE LET removed == key.chars \in DOMAIN _customData
            IN /\ _customData' = DictRemove(_customData, key.chars)
               /\ _isDirty' = (_isDirty \/ removed)
    /\ lastOp' = Call("RemoveCustomData", key, Null, key.null)
    /\ UNCHANGED <<cacheFile, pc, lastSaved, hostVars, buildVars>>

\* OnInit: Load
OnInit ==
    /\ pc = "constructed"
    /\ LET r == Load(cacheFile, _customData)
       IN /\ _customData' = r.data
          /\ lastOp' = Call("OnInit", Null, Null, r.threw)
    /\ pc' = "running"
    /\ UNCHANGED <<_isDirty, cacheFile, lastSaved, hostVars, buildVars>>

\* OnExit: Save, which writes only dirty data and clears the flag only when
\* SaveGuarded did not throw
OnExit ==
    /\ pc = "running"
    /\ IF ~_isDirty
       THEN /\ lastOp' = Call("OnExit", Null, Null, FALSE)
            /\ lastSaved' = NotSaved
            /\ UNCHANGED <<_isDirty, cacheFile>>
       ELSE \E order \in Orders(DOMAIN _customData) :
                LET r == SaveGuarded(_customData, order)
                IN /\ cacheFile' = r.file
                   /\ _isDirty' = ~r.ok
                   /\ lastOp' = Call("OnExit", Null, Null, ~r.ok)
                   /\ lastSaved' = IF r.ok THEN [valid |-> TRUE, data |-> _customData]
                                           ELSE NotSaved
    /\ pc' = "exited"
    /\ UNCHANGED <<_customData, hostVars, buildVars>>

\* The next editor session constructs a new module; the file stays on disk
Constructor ==
    /\ pc = "exited"
    /\ _customData' = EmptyDict
    /\ _isDirty' = FALSE
    /\ pc' = "constructed"
    /\ lastOp' = Call(".ctor", Null, Null, FALSE)
    /\ UNCHANGED <<cacheFile, lastSaved, hostVars, buildVars>>

\* Cache files an editor may find at start-up: none; version 1; version 2
\* with one pair; an unknown version; a version 3 file cut short; a version 3
\* file naming one key twice
InitialFiles ==
    LET k == WriteString(Str(<<107>>)).bytes
        t == WriteString(Str(TrueString)).bytes
    IN { [exists |-> FALSE, bytes |-> <<>>],
         [exists |-> TRUE, bytes |-> WriteInt32(1)],
         [exists |-> TRUE, bytes |-> WriteInt32(2) \o WriteInt32(1) \o k \o t],
         [exists |-> TRUE, bytes |-> WriteInt32(4)],
         [exists |-> TRUE, bytes |-> WriteInt32(3) \o WriteInt32(2) \o k \o t],
         [exists |-> TRUE, bytes |-> WriteInt32(3) \o WriteInt32(2) \o k \o t \o k \o t] }

\* The build tool's variables while the editor cache is looked at
BuildIdle ==
    /\ registry = <<>>
    /\ sdkDirs = <<>>
    /\ vsInstances = <<>>
    /\ assembly = <<>>
    /\ gpu = <<>>
    /\ _sdks = [null |-> TRUE, dict |-> <<>>]
    /\ _toolsets = [null |-> TRUE, dict |-> <<>>]
    /\ _platforms = [null |-> TRUE, list |-> <<>>]
    /\ Sdk_sdks = [null |-> TRUE, dict |-> <<>>, builds |-> 0]
    /\ ret = [op |-> "none"]

CacheInit ==
    /\ BuildIdle
    /\ _customData = EmptyDict
    /\ _isDirty = FALSE
    /\ cacheFile \in InitialFiles
    /\ pc = "constructed"
    /\ lastOp = Call(".ctor", Null, Null, FALSE)
    /\ lastSaved = NotSaved

CacheNext ==
    \/ \E key \in NullableKeys, value \in ValueSamples : SetCustomData(key, value)
    \/ \E key \in NullableKeys, value \in BOOLEAN : SetCustomDataBool(key, value)
    \/ \E key \in NullableKeys : RemoveCustomData(key)
    \/ OnInit
    \/ OnExit
    \/ Constructor

SpecCache == CacheInit /\ [][CacheNext]_vars

-----------------------------------------------------------------------------
(* Microsoft.Win32.Registry and WindowsPlatformBase's registry probing *)

\* A directory string, or null
NoDir == [null |-> TRUE, path |-> ""]

Dir(p) == [null |-> FALSE, path |-> p]

\* Registry values: no such value, a string (REG_SZ), a number (REG_DWORD)
RegNone == [kind |-> "none", str |-> ""]

RegString(str) == [kind |-> "string", str |-> str]

RegDWord == [kind |-> "dword", str |-> ""]

\* The four roots of TryReadInstallDirRegistryKey32, in the order of its code
RegistryRoots ==
    << "HKEY_CURRENT_USER\\SOFTWARE\\",
       "HKEY_LOCAL_MACHINE\\SOFTWARE\\",
       "HKEY_CURRENT_USER\\SOFTWARE\\Wow6432Node\\",
       "HKEY_LOCAL_MACHINE\\SOFTWARE\\Wow6432Node\\" >>

\* The keys and values GetSDKs reads
Sdk81Key == <<"Microsoft\\Microsoft SDKs\\Windows\\v8.1", "InstallationFolder">>

KitsRoot10Key == <<"Microsoft\\Windows Kits\\Installed Roots", "KitsRoot10">>

Sdk10Key == <<"Microsoft\\Microsoft SDKs\\Windows\\v10.0", "InstallationFolder">>

\* Registry.GetValue(root + keySuffix, valueName, null)
RegistryGetValue(root, keySuffix, valueName) ==
    IF <<root, keySuffix, valueName>> \in DOMAIN registry
    THEN registry[<<root, keySuffix, valueName>>]
    ELSE RegNone

\* TryReadDirRegistryKey(root + keySuffix, valueName, out value): [ok, dir]
TryReadDirRegistryKey(root, keySuffix, valueName) ==
    LET v == RegistryGetValue(root, keySuffix, valueName)
        value == IF v.kind = "string" THEN Dir(v.str) ELSE NoDir
    IN IF value.null \/ value.path = ""
       THEN [ok |-> FALSE, dir |-> NoDir]
       ELSE [ok |-> TRUE, dir |-> value]

\* The probes from root i on: [ok, dir, probes], probes being the roots read
RECURSIVE ProbeRoots(_, _, _, _)
ProbeRoots(roots, i, keySuffix, valueName) ==
    LET r == TryReadDirRegistryKey(roots[i], keySuffix, valueName) IN
    IF r.ok \/ i = Len(roots)
    THEN [ok |-> r.ok, dir |-> r.dir, probes |-> <<roots[i]>>]
    ELSE LET rest == ProbeRoots(roots, i + 1, keySuffix, valueName)
         IN [ok |-> rest.ok, dir |-> rest.dir, probes |-> <<roots[i]>> \o rest.probes]

\* A faulty version that asks the machine-wide keys before the per-user ones
TryReadInstallDirRegistryKey32MachineFirst(keySuffix, valueName) ==
    ProbeRoots(<<RegistryRoots[2], RegistryRoots[1], RegistryRoots[4], RegistryRoots[3]>>,
               1, keySuffix, valueName)

\* TryReadInstallDirRegistryKey32(keySuffix, valueName, out dir)
TryReadInstallDirRegistryKey32(keySuffix, valueName) ==
    ProbeRoots(RegistryRoots, 1, keySuffix, valueName)

-----------------------------------------------------------------------------
(* System.Version *)

\* The text of s up to its first '.', and the text after it
UpToDot(s) ==
    IF \E i \in 1..Len(s) : s[i] = 46
    THEN SubSeq(s, 1, (CHOOSE i \in 1..Len(s) : s[i] = 46 /\ \A j \in 1..(i - 1) : s[j] # 46) - 1)
    ELSE s

RECURSIVE SplitDots(_)
SplitDots(s) ==
    LET head == UpToDot(s) IN
    IF Len(head) = Len(s) THEN <<s>>
    ELSE <<head>> \o SplitDots(SubSeq(s, Len(head) + 2, Len(s)))

\* A component of a version: decimal digits (at most nine, which keeps the
\* value an Int32); [ok, val]
RECURSIVE DigitsValue(_)
DigitsValue(s) == IF s = <<>> THEN 0 ELSE 10 * DigitsValue(SubSeq(s, 1, Len(s) - 1)) + (s[Len(s)] - 48)

ParseComponent(s) ==
    IF Len(s) >= 1 /\ Len(s) <= 9 /\ \A i \in 1..Len(s) : s[i] >= 48 /\ s[i] <= 57
    THEN [ok |-> TRUE, val |-> DigitsValue(s)]
    ELSE [ok |-> FALSE, val |-> 0]

\* Version.TryParse(name, out version): [ok, version], a version being
\* <<Major, Minor, Build, Revision>> with -1 for a component that is not given
VersionTryParse(name) ==
    LET parts == SplitDots(name)
        n == Len(parts)
    IN IF n >= 2 /\ n <= 4 /\ \A i \in 1..n : ParseComponent(parts[i]).ok
       THEN [ok |-> TRUE,
             version |-> [i \in 1..4 |-> IF i <= n THEN ParseComponent(parts[i]).val ELSE -1]]
       ELSE [ok |-> FALSE, version |-> <<0, 0, -1, -1>>]

-----------------------------------------------------------------------------
(* WindowsPlatformBase.GetSDKs *)

\* The Windows 10 members of WindowsPlatformSDK with their build numbers, in
\* the order GetSDKs compares them
Windows10SDKs ==
    << <<"v10_0_10240_0", 10240>>, <<"v10_0_10586_0", 10586>>, <<"v10_0_14393_0", 14393>>,
       <<"v10_0_15063_0", 15063>>, <<"v10_0_16299_0", 16299>>, <<"v10_0_17134_0", 17134>>,
       <<"v10_0_17763_0", 17763>>, <<"v10_0_18362_0", 18362>>, <<"v10_0_19041_0", 19041>> >>

\* GetSDKVersion(sdk)
GetSDKVersion(sdk) ==
    IF sdk = "v8_1" THEN <<8, 1, -1, -1>>
    ELSE LET i == CHOOSE i \in 1..Len(Windows10SDKs) : Windows10SDKs[i][1] = sdk
         IN <<10, 0, Windows10SDKs[i][2], 0>>

\* File.Exists(Path.Combine(dir, "Include", "um", "windows.h"))
Has81Header(dir) == dir \in DOMAIN sdkDirs /\ sdkDirs[dir].has81Header

\* Directory.Exists(Path.Combine(dir, "Include"))
IncludeExists(dir) == dir \in DOMAIN sdkDirs /\ sdkDirs[dir].include.exists

\* Directory.GetDirectories(includeRootDir) as [name, hasHeader] entries,
\* hasHeader being File.Exists(Path.Combine(includeDir, "um", "windows.h"));
\* Include\um is itself a directory when Include\um\windows.h exists
IncludeDirs(dir) ==
    sdkDirs[dir].include.dirs
        \cup (IF sdkDirs[dir].has81Header THEN {[name |-> <<117, 109>>, hasHeader |-> FALSE]}
              ELSE {})

\* Dictionary.Add on [threw, dict]: throws ArgumentException for a key that
\* is already present
DictAdd(st, k, v) ==
    IF st.threw THEN st
    ELSE IF k \in DOMAIN st.dict THEN [threw |-> TRUE, dict |-> st.dict]
    ELSE [threw |-> FALSE, dict |-> [x \in DOMAIN st.dict \cup {k} |-> IF x = k THEN v ELSE st.dict[x]]]

\* The if/else-if chain of GetSDKs for one include directory
AddWindows10SDK(st, entry, sdk10) ==
    LET p == VersionTryParse(entry.name) IN
    IF p.ok /\ entry.hasHeader
    THEN LET known == {i \in 1..Len(Windows10SDKs) :
                           p.version = GetSDKVersion(Windows10SDKs[i][1])}
         IN IF known # {}
            THEN DictAdd(st, Windows10SDKs[CHOOSE i \in known : TRUE][1], sdk10)
            ELSE st
    ELSE st

\* foreach (var includeDir in Directory.GetDirectories(includeRootDir)); the
\* state after an iteration is bound as the member of a one-element set,
\* which evaluates it once
RECURSIVE ScanIncludeDirs(_, _, _, _)
ScanIncludeDirs(st, entries, i, sdk10) ==
    IF st.threw \/ i > Len(entries) THEN st
    ELSE CHOOSE r \in { ScanIncludeDirs(next, entries, i + 1, sdk10) :
                          next \in {AddWindows10SDK(st, entries[i], sdk10)} } : TRUE

\* foreach (var sdk10 in sdk10Roots)
RECURSIVE ScanSdk10Roots(_, _, _, _)
ScanSdk10Roots(st, roots, j, dirOrder) ==
    IF st.threw \/ j > Len(roots) THEN st
    ELSE CHOOSE r \in { ScanSdk10Roots(next, roots, j + 1, dirOrder) :
                          next \in {IF IncludeExists(roots[j])
                                    THEN ScanIncludeDirs(st, dirOrder[roots[j]], 1, roots[j])
                                    ELSE st} } : TRUE

\* The roots the two Windows 10 registry values name (a HashSet)
Sdk10Roots ==
    LET kits == TryReadInstallDirRegistryKey32(KitsRoot10Key[1], KitsRoot10Key[2])
        inst == TryReadInstallDirRegistryKey32(Sdk10Key[1], Sdk10Key[2])
    IN (IF kits.ok THEN {kits.dir.path} ELSE {}) \cup (IF inst.ok THEN {inst.dir.path} ELSE {})

\* The body of GetSDKs after _sdks = new Dictionary: [threw, dict].  rootOrder
\* is the enumeration order of sdk10Roots, dirOrder[root] the order in which
\* GetDirectories lists the include directories of a root.
GetSDKsScan(rootOrder, dirOrder) ==
    LET sdk81 == TryReadInstallDirRegistryKey32(Sdk81Key[1], Sdk81Key[2])
        empty == [threw |-> FALSE, dict |-> [k \in {} |-> ""]]
        st81 == IF sdk81.ok /\ Has81Header(sdk81.dir.path)
                THEN DictAdd(empty, "v8_1", sdk81.dir.path)
                ELSE empty
    IN ScanSdk10Roots(st81, rootOrder, 1, dirOrder)

\* The orders GetDirectories may list the include directories of the roots in
DirOrders(roots) ==
    LET existing == {r \in roots : IncludeExists(r)}
    IN { f \in [existing -> UNION {Orders(IncludeDirs(r)) : r \in existing}] :
           \A r \in existing : f[r] \in Orders(IncludeDirs(r)) }

\* GetSDKs() when the static _sdks is sdks: the dictionary is cached in _sdks
\* as soon as it is created, so a call after one that threw returns what had
\* been added until then
GetSDKs(sdks, rootOrder, dirOrder) ==
    IF ~sdks.null THEN [threw |-> FALSE, dict |-> sdks.dict]
    ELSE GetSDKsScan(rootOrder, dirOrder)

CallGetSDKs ==
    /\ \E rootOrder \in (IF _sdks.null THEN Orders(Sdk10Roots) ELSE {<<>>}) :
         \E dirOrder \in (IF _sdks.null THEN DirOrders(Sdk10Roots) ELSE {<<>>}) :
           \E r \in {GetSDKs(_sdks, rootOrder, dirOrder)} :
              /\ _sdks' = [null |-> FALSE, dict |-> r.dict]
              /\ ret' = [op |-> "GetSDKs", threw |-> r.threw, cached |-> ~_sdks.null,
                         value |-> IF r.threw THEN [k \in {} |-> ""] ELSE r.dict]
    /\ UNCHANGED <<cacheVars, hostVars, Sdk_sdks, _toolsets, _platforms>>

-----------------------------------------------------------------------------
(* WindowsPlatformBase.GetToolsets *)

\* A toolset directory: Path\VC (kind "VC") or Path\VC\Tools\MSVC\<name>
VcDir(path) == [root |-> path, kind |-> "VC", name |-> <<>>]

MsvcDir(path, name) == [root |-> path, kind |-> "MSVC", name |-> name]

\* Dictionary indexer on the toolsets
ToolsetSet(dict, k, v) == [x \in DOMAIN dict \cup {k} |-> IF x = k THEN v ELSE dict[x]]

\* A faulty FindMsvcToolsets that tests the minor version with > and <
\* instead of dividing it by ten
RECURSIVE FindMsvcToolsetsOpenRange(_, _, _, _)
FindMsvcToolsetsOpenRange(dict, path, toolsets, i) ==
    IF i > Len(toolsets) THEN dict
    ELSE LET toolset == toolsets[i]
             p == VersionTryParse(toolset.name)
             next ==
                 IF p.ok /\ (toolset.hostx64 \/ toolset.hostx86)
                 THEN IF p.version[1] = 14 /\ p.version[2] > 10 /\ p.version[2] < 20
                      THEN ToolsetSet(dict, "v141", MsvcDir(path, toolset.name))
                      ELSE IF p.version[1] = 14 /\ p.version[2] > 20 /\ p.version[2] < 30
                           THEN ToolsetSet(dict, "v142", MsvcDir(path, toolset.name))
                           ELSE dict
                 ELSE dict
         IN FindMsvcToolsetsOpenRange(next, path, toolsets, i + 1)

\* The foreach of FindMsvcToolsets(Path\VC\Tools\MSVC) from directory i on;
\* toolsets is what Directory.GetDirectories lists, as [name, hostx64,
\* hostx86] with the File.Exists answers for bin\Hostx64\x64\cl.exe and
\* bin\Hostx86\x64\cl.exe
RECURSIVE FindMsvcToolsets(_, _, _, _)
FindMsvcToolsets(dict, path, toolsets, i) ==
    IF i > Len(toolsets) THEN dict
    ELSE LET toolset == toolsets[i]
             p == VersionTryParse(toolset.name)
             next ==
                 IF p.ok /\ (toolset.hostx64 \/ toolset.hostx86)
                 THEN IF p.version[1] = 14 /\ p.version[2] \div 10 = 1
                      THEN ToolsetSet(dict, "v141", MsvcDir(path, toolset.name))
                      ELSE IF p.version[1] = 14 /\ p.version[2] \div 10 = 2
                           THEN ToolsetSet(dict, "v142", MsvcDir(path, toolset.name))
                           ELSE dict
                 ELSE dict
         IN FindMsvcToolsets(next, path, toolsets, i + 1)

\* The two foreach loops over the Visual Studio 2017 (2019) instances, from
\* instance i on; an instance without a VC\Tools\MSVC directory adds nothing
RECURSIVE FindInInstances(_, _, _, _)
FindInInstances(dict, version, i, dirOrder) ==
    IF i > Len(vsInstances) THEN dict
    ELSE LET vs == vsInstances[i]
         IN FindInInstances(IF vs.Version = version /\ vs.vc.exists /\ vs.vc.msvc.exists
                            THEN FindMsvcToolsets(dict, vs.Path, dirOrder[i], 1)
                            ELSE dict,
                            version, i + 1, dirOrder)

\* The body of GetToolsets after _toolsets = new Dictionary
GetToolsetsScan(dirOrder) ==
    LET found2015 == {i \in 1..Len(vsInstances) : vsInstances[i].Version = "VisualStudio2015"}
        empty == [k \in {} |-> VcDir("")]
        d140 == IF found2015 # {}
                THEN LET vs2015 == vsInstances[CHOOSE i \in found2015 : \A j \in found2015 : i <= j]
                     IN IF vs2015.vc.exists /\ (vs2015.vc.amd64 \/ vs2015.vc.x86_amd64)
                        THEN ToolsetSet(empty, "v140", VcDir(vs2015.Path))
                        ELSE empty
                ELSE empty
        d2017 == FindInInstances(d140, "VisualStudio2017", 1, dirOrder)
    IN FindInInstances(d2017, "VisualStudio2019", 1, dirOrder)

\* The orders in which GetDirectories may list the toolset directories of
\* each instance
ToolsetDirOrders ==
    { f \in [1..Len(vsInstances) ->
                UNION {Orders(vsInstances[i].vc.msvc.dirs) : i \in 1..Len(vsInstances)}] :
        \A i \in 1..Len(vsInstances) : f[i] \in Orders(vsInstances[i].vc.msvc.dirs) }

\* GetToolsets() when the static _toolsets is toolsets
GetToolsets(toolsets, dirOrder) ==
    IF ~toolsets.null THEN toolsets.dict ELSE GetToolsetsScan(dirOrder)

CallGetToolsets ==
    /\ \E dirOrder \in (IF _toolsets.null THEN ToolsetDirOrders ELSE {<<>>}) :
           LET r == GetToolsets(_toolsets, dirOrder)
           IN /\ _toolsets' = [null |-> FALSE, dict |-> r]
              /\ ret' = [op |-> "GetToolsets", threw |-> FALSE, cached |-> ~_toolsets.null,
                         value |-> r]
    /\ UNCHANGED <<cacheVars, hostVars, Sdk_sdks, _sdks, _platforms>>

\* The statics of Flax.Build before any call
BuildStaticsInit ==
    /\ _sdks = [null |-> TRUE, dict |-> <<>>]
    /\ _toolsets = [null |-> TRUE, dict |-> <<>>]
    /\ _platforms = [null |-> TRUE, list |-> <<>>]
    /\ Sdk_sdks = [null |-> TRUE, dict |-> <<>>, builds |-> 0]
    /\ ret = [op |-> "none"]

\* The editor cache's variables while the build tool is looked at
CacheIdle ==
    /\ _customData = EmptyDict
    /\ _isDirty = FALSE
    /\ cacheFile = [exists |-> FALSE, bytes |-> <<>>]
    /\ pc = "constructed"
    /\ lastOp = Call(".ctor", Null, Null, FALSE)
    /\ lastSaved = NotSaved

\* What a registry value may hold
RegValueSamples == {RegNone, RegDWord, RegString(""), RegString("A"), RegString("B")}

\* Every content of the four roots for the Windows 8.1 SDK key
RegistryInit ==
    /\ CacheIdle
    /\ BuildStaticsInit
    /\ sdkDirs = <<>>
    /\ vsInstances = <<>>
    /\ assembly = <<>>
    /\ gpu = <<>>
    /\ \E f \in [1..4 -> RegValueSamples] :
           registry = [k \in {<<RegistryRoots[i], Sdk81Key[1], Sdk81Key[2]>> : i \in 1..4}
                           |-> f[CHOOSE i \in 1..4 : k[1] = RegistryRoots[i]]]

\* A call of TryReadInstallDirRegistryKey32
CallTryReadInstallDirRegistryKey32(keySuffix, valueName) ==
    /\ ret' = [op |-> "TryReadInstallDirRegistryKey32", keySuffix |-> keySuffix,
               valueName |-> valueName,
               result |-> TryReadInstallDirRegistryKey32(keySuffix, valueName)]
    /\ UNCHANGED <<cacheVars, hostVars, Sdk_sdks, _sdks, _toolsets, _platforms>>

RegistryNext ==
    \E key \in {Sdk81Key, KitsRoot10Key, Sdk10Key} :
        CallTryReadInstallDirRegistryKey32(key[1], key[2])

SpecRegistry == RegistryInit /\ [][RegistryNext]_vars

\* The number of directories under an Include directory of the model
MaxIncludeDirs == 2

\* Names of include directories: "10.0.19041.0", "10.0.10240.0" and
\* "10.0.19041" (a version that no member of WindowsPlatformSDK has)
IncludeNameSamples ==
    { <<49, 48, 46, 48, 46, 49, 57, 48, 52, 49, 46, 48>>,
      <<49, 48, 46, 48, 46, 49, 48, 50, 52, 48, 46, 48>>,
      <<49, 48, 46, 48, 46, 49, 57, 48, 52, 49>> }

\* The Include directories of the model: missing, or with up to
\* MaxIncludeDirs version directories of distinct names
IncludeSamples ==
    LET entries == [name : IncludeNameSamples, hasHeader : BOOLEAN]
    IN {[exists |-> FALSE, dirs |-> {}]}
       \cup { [exists |-> TRUE, dirs |-> d] :
                d \in { x \in SUBSET entries :
                          /\ Cardinality(x) <= MaxIncludeDirs
                          /\ \A e1, e2 \in x : e1.name = e2.name => e1 = e2 } }

\* The directories "A" and "B"; only "A" is named by the Windows 8.1 key
SdkDirSamples ==
    { [d \in {"A", "B"} |-> IF d = "A" THEN [has81Header |-> h, include |-> a]
                                        ELSE [has81Header |-> FALSE, include |-> b]] :
        h \in BOOLEAN, a \in IncludeSamples, b \in IncludeSamples } 

\* The registry values GetSDKs reads: the Windows 8.1 folder is "A" or not
\* registered, the two Windows 10 values name "A", "B" or nothing
SdkRegistrySamples ==
    { [k \in { <<RegistryRoots[4], Sdk81Key[1], Sdk81Key[2]>>,
               <<RegistryRoots[2], KitsRoot10Key[1], KitsRoot10Key[2]>>,
               <<RegistryRoots[4], Sdk10Key[1], Sdk10Key[2]>> }
         |-> IF k[2] = Sdk81Key[1] THEN v81
             ELSE IF k[2] = KitsRoot10Key[1] THEN vKits ELSE v10] :
        v81 \in {RegNone, RegString("A")},
        vKits \in {RegNone, RegString("A"), RegString("B")},
        v10 \in {RegNone, RegString("A"), RegString("B")} }

SdkInit ==
    /\ CacheIdle
    /\ BuildStaticsInit
    /\ vsInstances = <<>>
    /\ assembly = <<>>
    /\ gpu = <<>>
    /\ registry \in SdkRegistrySamples
    /\ sdkDirs \in {d \in SdkDirSamples : d["A"].has81Header => d["A"].include.exists}

SdkNext == CallGetSDKs

SpecSdk == SdkInit /\ [][SdkNext]_vars

\* The number of directories under VC\Tools\MSVC of the model
MaxToolsetDirs == 1

\* Names of toolset directories: "14.10.25017", "14.29.30133", "14.30.30705",
\* "15.16.27023" and "14" (not a version)
ToolsetNameSamples ==
    { <<49, 52, 46, 49, 48, 46, 50, 53, 48, 49, 55>>,
      <<49, 52, 46, 50, 57, 46, 51, 48, 49, 51, 51>>,
      <<49, 52, 46, 51, 48, 46, 51, 48, 55, 48, 53>>,
      <<49, 53, 46, 49, 54, 46, 50, 55, 48, 50, 51>>,
      <<49, 52>> }

\* VC\Tools\MSVC: missing, or with up to MaxToolsetDirs directories of
\* distinct names, each with cl.exe for no host, for Hostx64, for Hostx86 or
\* for both
MsvcSamples ==
    LET entries == { [name |-> n, hostx64 |-> h[1], hostx86 |-> h[2]] :
                       n \in ToolsetNameSamples,
                       h \in BOOLEAN \X BOOLEAN }
    IN {[exists |-> FALSE, dirs |-> {}]}
       \cup { [exists |-> TRUE, dirs |-> d] :
                d \in { x \in SUBSET entries :
                          /\ Cardinality(x) <= MaxToolsetDirs
                          /\ \A e1, e2 \in x : e1.name = e2.name => e1 = e2 } }

NoMsvc == [exists |-> FALSE, dirs |-> {}]

\* The VC directory of a Visual Studio 2015 install: missing, without a
\* 64-bit compiler, with bin\amd64\cl.exe, with bin\x86_amd64\cl.exe or with
\* both; it may also hold a Tools\MSVC directory
VcSamples2015 ==
    {[exists |-> FALSE, amd64 |-> FALSE, x86_amd64 |-> FALSE, msvc |-> NoMsvc]}
    \cup { [exists |-> TRUE, amd64 |-> c[1], x86_amd64 |-> c[2], msvc |-> m] :
             c \in BOOLEAN \X BOOLEAN,
             m \in { NoMsvc,
                     [exists |-> TRUE,
                      dirs |-> {[name |-> <<49, 52, 46, 49, 48, 46, 50, 53, 48, 49, 55>>,
                                 hostx64 |-> TRUE, hostx86 |-> FALSE]}] } }

\* The VC directory of a Visual Studio 2017 or 2019 install: missing, with a
\* bin\amd64\cl.exe and nothing else, or with a Tools\MSVC directory
VcSamplesNew ==
    { [exists |-> FALSE, amd64 |-> FALSE, x86_amd64 |-> FALSE, msvc |-> NoMsvc],
      [exists |-> TRUE, amd64 |-> TRUE, x86_amd64 |-> FALSE, msvc |-> NoMsvc] }
    \cup { [exists |-> TRUE, amd64 |-> FALSE, x86_amd64 |-> FALSE, msvc |-> m] :
             m \in MsvcSamples }

\* A Visual Studio instance installed at path
VsInstanceSamples(path) ==
    { [Version |-> "VisualStudio2015", Path |-> path, vc |-> vc] : vc \in VcSamples2015 }
    \cup { [Version |-> v, Path |-> path, vc |-> vc] :
             v \in {"VisualStudio2017", "VisualStudio2019"}, vc \in VcSamplesNew }

\* What VisualStudioInstance.GetInstances() may return: up to two instances,
\* at most one of them a Visual Studio 2015
VsInstancesSamples ==
    {<<>>}
    \cup { <<a>> : a \in VsInstanceSamples("VS1") }
    \cup { two \in VsInstanceSamples("VS1") \X VsInstanceSamples("VS2") :
             ~(two[1].Version = "VisualStudio2015" /\ two[2].Version = "VisualStudio2015") }

ToolsetInit ==
    /\ CacheIdle
    /\ BuildStaticsInit
    /\ registry = <<>>
    /\ sdkDirs = <<>>
    /\ vsInstances \in VsInstancesSamples
    /\ assembly = <<>>
    /\ gpu = <<>>

ToolsetNext == CallGetToolsets

SpecToolset == ToolsetInit /\ [][ToolsetNext]_vars

-----------------------------------------------------------------------------
(* WindowsPlatformBase.GetVCToolPath64 *)

\* Directory names under bin: "amd64", "x86_amd64", "x64", and the host
\* directories as FindMsvcToolsets ("Hostx64", "Hostx86") and as
\* GetVCToolPath64 ("HostX64", "HostX86") spell them
Amd64 == <<97, 109, 100, 54, 52>>

X86Amd64 == <<120, 56, 54, 95, 97, 109, 100, 54, 52>>

X64 == <<120, 54, 52>>

Hostx64 == <<72, 111, 115, 116, 120, 54, 52>>

Hostx86 == <<72, 111, 115, 116, 120, 56, 54>>

HostX64 == <<72, 111, 115, 116, 88, 54, 52>>

HostX86 == <<72, 111, 115, 116, 88, 56, 54>>

\* The directories under dir\bin that hold a cl.exe, dir being a toolset
\* directory of a Visual Studio instance
CompilerDirs(dir) ==
    LET found == {i \in 1..Len(vsInstances) : vsInstances[i].Path = dir.root}
    IN IF found = {} THEN {}
       ELSE LET vc == vsInstances[CHOOSE i \in found : TRUE].vc
            IN IF ~vc.exists THEN {}
               ELSE IF dir.kind = "VC"
               THEN (IF vc.amd64 THEN {<<Amd64>>} ELSE {})
                    \cup (IF vc.x86_amd64 THEN {<<X86Amd64>>} ELSE {})
               ELSE UNION { (IF e.hostx64 THEN {<<Hostx64, X64>>} ELSE {})
                            \cup (IF e.hostx86 THEN {<<Hostx86, X64>>} ELSE {}) :
                            e \in {x \in vc.msvc.dirs : x.name = dir.name} }

\* File.Exists(Path.Combine(dir, "bin", sub..., "cl.exe")): the file system
\* of Windows compares names without regard to case
CompilerExists(dir, sub) ==
    \E f \in CompilerDirs(dir) :
        /\ Len(f) = Len(sub)
        /\ \A i \in 1..Len(f) : EqualsOrdinalIgnoreCase(f[i], sub[i])

\* No path (the call threw)
NoToolPath == [dir |-> VcDir(""), sub |-> <<>>]

\* A faulty GetVCToolPath64 that tries the x86-hosted compiler first
GetVCToolPath64CrossFirst(toolsetsStatic, toolset, dirOrder) ==
    LET toolsets == GetToolsets(toolsetsStatic, dirOrder)
    IN IF toolset \notin DOMAIN toolsets
       THEN [threw |-> TRUE, exception |-> "KeyNotFoundException", value |-> NoToolPath,
             toolsets |-> toolsets]
       ELSE LET vcToolChainDir == toolsets[toolset]
                nativeCompilerPath == IF toolset = "v140" THEN <<Amd64>> ELSE <<HostX64, X64>>
                crossCompilerPath == IF toolset = "v140" THEN <<X86Amd64>> ELSE <<HostX86, X64>>
            IN IF CompilerExists(vcToolChainDir, crossCompilerPath)
               THEN [threw |-> FALSE, exception |-> "", toolsets |-> toolsets,
                     value |-> [dir |-> vcToolChainDir, sub |-> crossCompilerPath]]
               ELSE IF CompilerExists(vcToolChainDir, nativeCompilerPath)
                    THEN [threw |-> FALSE, exception |-> "", toolsets |-> toolsets,
                          value |-> [dir |-> vcToolChainDir, sub |-> nativeCompilerPath]]
                    ELSE [threw |-> TRUE, exception |-> "Exception", value |-> NoToolPath,
                          toolsets |-> toolsets]

\* GetVCToolPath64(toolset) when the static _toolsets is toolsetsStatic:
\* [threw, exception, value, toolsets], value being the directory under bin
\* of the compiler found and toolsets the dictionary GetToolsets returned
GetVCToolPath64(toolsetsStatic, toolset, dirOrder) ==
    LET toolsets == GetToolsets(toolsetsStatic, dirOrder)
    IN IF toolset \notin DOMAIN toolsets
       THEN [threw |-> TRUE, exception |-> "KeyNotFoundException", value |-> NoToolPath,
             toolsets |-> toolsets]
       ELSE LET vcToolChainDir == toolsets[toolset]
                nativeCompilerPath == IF toolset = "v140" THEN <<Amd64>> ELSE <<HostX64, X64>>
                crossCompilerPath == IF toolset = "v140" THEN <<X86Amd64>> ELSE <<HostX86, X64>>
            IN IF CompilerExists(vcToolChainDir, nativeCompilerPath)
               THEN [threw |-> FALSE, exception |-> "", toolsets |-> toolsets,
                     value |-> [dir |-> vcToolChainDir, sub |-> nativeCompilerPath]]
               ELSE IF CompilerExists(vcToolChainDir, crossCompilerPath)
                    THEN [threw |-> FALSE, exception |-> "", toolsets |-> toolsets,
                          value |-> [dir |-> vcToolChainDir, sub |-> crossCompilerPath]]
                    ELSE [threw |-> TRUE, exception |-> "Exception", value |-> NoToolPath,
                          toolsets |-> toolsets]

\* The members of WindowsPlatformToolset
WindowsPlatformToolsets == {"v140", "v141", "v142"}

CallGetVCToolPath64(toolset) ==
    /\ \E dirOrder \in (IF _toolsets.null THEN ToolsetDirOrders ELSE {<<>>}) :
           \E r \in {GetVCToolPath64(_toolsets, toolset, dirOrder)} :
              /\ _toolsets' = [null |-> FALSE, dict |-> r.toolsets]
              /\ ret' = [op |-> "GetVCToolPath64", toolset |-> toolset, threw |-> r.threw,
                         exception |-> r.exception, value |-> r.value]
    /\ UNCHANGED <<cacheVars, hostVars, Sdk_sdks, _sdks, _platforms>>

ToolPathNext ==
    \/ CallGetToolsets
    \/ \E toolset \in WindowsPlatformToolsets : CallGetVCToolPath64(toolset)

SpecToolPath == ToolsetInit /\ [][ToolPathNext]_vars

-----------------------------------------------------------------------------
(* Platform *)

\* The TargetPlatform values Platform.cs names; "Other" is any other value
TargetPlatforms ==
    {"Windows", "XboxScarlett", "XboxOne", "UWP", "Linux", "PS4", "Android", "Other"}

\* The TargetArchitecture values Platform.cs names; "Other" is any other value
TargetArchitectures == {"AnyCPU", "x64", "x86", "ARM64", "Other"}

\* A faulty IsPlatformSupported whose Android case tests for x64
IsPlatformSupportedAndroidX64(targetPlatform, targetArchitecture) ==
    IF targetArchitecture = "AnyCPU" THEN TRUE
    ELSE CASE targetPlatform = "Windows" -> targetArchitecture = "x64" \/ targetArchitecture = "x86"
           [] targetPlatform = "XboxScarlett" -> targetArchitecture = "x64"
           [] targetPlatform = "XboxOne" -> targetArchitecture = "x64"
           [] targetPlatform = "UWP" -> targetArchitecture = "x64"
           [] targetPlatform = "Linux" -> targetArchitecture = "x64"
           [] targetPlatform = "PS4" -> targetArchitecture = "x64"
           [] targetPlatform = "Android" -> targetArchitecture = "x64"
           [] OTHER -> FALSE

\* Platform.IsPlatformSupported
IsPlatformSupported(targetPlatform, targetArchitecture) ==
    IF targetArchitecture = "AnyCPU" THEN TRUE
    ELSE CASE targetPlatform = "Windows" -> targetArchitecture = "x64" \/ targetArchitecture = "x86"
           [] targetPlatform = "XboxScarlett" -> targetArchitecture = "x64"
           [] targetPlatform = "XboxOne" -> targetArchitecture = "x64"
           [] targetPlatform = "UWP" -> targetArchitecture = "x64"
           [] targetPlatform = "Linux" -> targetArchitecture = "x64"
           [] targetPlatform = "PS4" -> targetArchitecture = "x64"
           [] targetPlatform = "Android" -> targetArchitecture = "ARM64"
           [] OTHER -> FALSE

CallIsPlatformSupported(targetPlatform, targetArchitecture) ==
    /\ ret' = [op |-> "IsPlatformSupported", targetPlatform |-> targetPlatform,
               targetArchitecture |-> targetArchitecture, threw |-> FALSE,
               value |-> IsPlatformSupported(targetPlatform, targetArchitecture)]
    /\ UNCHANGED <<cacheVars, hostVars, Sdk_sdks, _sdks, _toolsets, _platforms>>

\* No toolchain (a null reference)
NullToolchain == [Platform |-> "", Architecture |-> ""]

\* The field Platform._toolchains of a new instance
NoToolchains == [null |-> TRUE, dict |-> <<>>]

\* x.IsSubclassOf(typeof(Platform))
IsSubclassOfPlatform(type) == type.BaseType \in {"Platform", "WindowsPlatformBase"}

\* Where(x => !x.IsAbstract && x.IsSubclassOf(typeof(Platform))) over types
\* from type i on
RECURSIVE WhereConcretePlatform(_, _)
WhereConcretePlatform(types, i) ==
    IF i > Len(types) THEN <<>>
    ELSE IF ~types[i].IsAbstract /\ IsSubclassOfPlatform(types[i])
         THEN <<types[i]>> \o WhereConcretePlatform(types, i + 1)
         ELSE WhereConcretePlatform(types, i + 1)

\* The types GetPlatform creates instances of, in the order of GetTypes()
ConcreteTypes == WhereConcretePlatform(assembly, 1)

\* The constructor of WindowsPlatformBase run in st = [threw, sdks, toolsets,
\* list]: the value of _hasRequiredSDKsInstalled and the statics after it, or
\* the exception of GetSDKs
WindowsPlatformBaseCtor(st, orders) ==
    CHOOSE r \in
        { IF sdsk.threw
          THEN [threw |-> TRUE, sdks |-> [null |-> FALSE, dict |-> sdsk.dict],
                toolsets |-> st.toolsets, hasRequiredSDKsInstalled |-> FALSE]
          ELSE CHOOSE q \in
                   { [threw |-> FALSE, sdks |-> [null |-> FALSE, dict |-> sdsk.dict],
                      toolsets |-> [null |-> FALSE, dict |-> toolsets],
                      hasRequiredSDKsInstalled |->
                          Cardinality(DOMAIN sdsk.dict) > 0
                          /\ Cardinality(DOMAIN toolsets) > 0] :
                     toolsets \in {GetToolsets(st.toolsets, orders.toolsetOrder)} } : TRUE :
          sdsk \in {GetSDKs(st.sdks, orders.rootOrder, orders.dirOrder)} } : TRUE

\* Activator.CreateInstance(type) followed by the append to the array; a
\* type derived from WindowsPlatformBase runs its constructor, any other
\* type answers HasRequiredSDKsInstalled as its class defines
ActivatorCreateInstance(st, type, orders) ==
    IF type.BaseType = "WindowsPlatformBase"
    THEN CHOOSE r \in
             { [threw |-> c.threw, sdks |-> c.sdks, toolsets |-> c.toolsets,
                list |-> IF c.threw THEN st.list
                         ELSE Append(st.list,
                                     [Type |-> type.Name, Target |-> type.Target,
                                      HasRequiredSDKsInstalled |-> c.hasRequiredSDKsInstalled,
                                      _toolchains |-> NoToolchains])] :
               c \in {WindowsPlatformBaseCtor(st, orders)} } : TRUE
    ELSE [st EXCEPT !.list = Append(st.list,
                                    [Type |-> type.Name, Target |-> type.Target,
                                     HasRequiredSDKsInstalled |-> type.HasRequiredSDKsInstalled,
                                     _toolchains |-> NoToolchains])]

\* Select(Activator.CreateInstance) over types from type i on; an exception
\* of a constructor ends the enumeration
RECURSIVE CreateInstances(_, _, _, _)
CreateInstances(st, types, i, orders) ==
    IF i > Len(types) \/ st.threw THEN st
    ELSE CHOOSE r \in { CreateInstances(next, types, i + 1, orders) :
                          next \in {ActivatorCreateInstance(st, types[i], orders)} } : TRUE

\* Platform.GetPlatform: [threw, exception, value, platforms, sdks, toolsets].
\* value is the index of the returned instance in _platforms, 0 for null;
\* _platforms is assigned only when every constructor returned.
GetPlatform(targetPlatform, nullIfMissing, orders) ==
    LET st0 == [threw |-> FALSE, sdks |-> _sdks, toolsets |-> _toolsets, list |-> <<>>]
        Lookup(st) ==
            LET found == {i \in 1..Len(st.list) : st.list[i].Target = targetPlatform}
                platforms == [null |-> FALSE, list |-> st.list]
            IN IF st.threw
               THEN [threw |-> TRUE, exception |-> "TargetInvocationException", value |-> 0,
                     platforms |-> _platforms, sdks |-> st.sdks, toolsets |-> st.toolsets]
               ELSE IF found # {}
                    THEN [threw |-> FALSE, exception |-> "",
                          value |-> CHOOSE i \in found : \A j \in found : i <= j,
                          platforms |-> platforms, sdks |-> st.sdks, toolsets |-> st.toolsets]
                    ELSE IF nullIfMissing
                         THEN [threw |-> FALSE, exception |-> "", value |-> 0,
                               platforms |-> platforms, sdks |-> st.sdks,
                               toolsets |-> st.toolsets]
                         ELSE [threw |-> TRUE, exception |-> "Exception", value |-> 0,
                               platforms |-> platforms, sdks |-> st.sdks,
                               toolsets |-> st.toolsets]
    IN CHOOSE r \in
           { Lookup(st) :
             st \in {IF _platforms.null THEN CreateInstances(st0, ConcreteTypes, 1, orders)
                     ELSE [st0 EXCEPT !.list = _platforms.list]} } : TRUE

\* The enumeration orders a first GetPlatform call depends on
PlatformOrders ==
    IF _platforms.null
    THEN [rootOrder : IF _sdks.null THEN Orders(Sdk10Roots) ELSE {<<>>},
          dirOrder : IF _sdks.null THEN DirOrders(Sdk10Roots) ELSE {<<>>},
          toolsetOrder : IF _toolsets.null THEN ToolsetDirOrders ELSE {<<>>}]
    ELSE {[rootOrder |-> <<>>, dirOrder |-> <<>>, toolsetOrder |-> <<>>]}

CallGetPlatform(targetPlatform, nullIfMissing) ==
    /\ \E orders \in PlatformOrders :
           \E r \in {GetPlatform(targetPlatform, nullIfMissing, orders)} :
              /\ _platforms' = r.platforms
              /\ _sdks' = r.sdks
              /\ _toolsets' = r.toolsets
              /\ ret' = [op |-> "GetPlatform", targetPlatform |-> targetPlatform,
                         nullIfMissing |-> nullIfMissing, threw |-> r.threw,
                         exception |-> r.exception, value |-> r.value,
                         created |-> _platforms.null]
    /\ UNCHANGED <<cacheVars, hostVars, Sdk_sdks>>

\* CreateToolchain(architecture) of a platform: abstract in Platform, it
\* creates the toolchain for the given architecture
CreateToolchain(platform, architecture) ==
    [Platform |-> platform.Type, Architecture |-> architecture]

\* A faulty GetToolchain that does not look at HasRequiredSDKsInstalled
GetToolchainWithoutSdkCheck(platform, targetArchitecture) ==
    LET toolchains == IF platform._toolchains.null THEN [k \in {} |-> NullToolchain]
                      ELSE platform._toolchains.dict
        key == targetArchitecture
    IN IF key \in DOMAIN toolchains
       THEN [threw |-> FALSE, value |-> toolchains[key], created |-> FALSE,
             platform |-> [platform EXCEPT !._toolchains = [null |-> FALSE, dict |-> toolchains]]]
       ELSE LET toolchain == CreateToolchain(platform, targetArchitecture)
                added == [k \in DOMAIN toolchains \cup {key} |->
                              IF k = key THEN toolchain ELSE toolchains[k]]
            IN [threw |-> FALSE, value |-> toolchain, created |-> TRUE,
                platform |-> [platform EXCEPT !._toolchains = [null |-> FALSE, dict |-> added]]]

\* Platform.GetToolchain on the instance platform: [threw, value, created,
\* platform], created telling whether CreateToolchain was called and platform
\* being the instance after the call
GetToolchain(platform, targetArchitecture) ==
    IF ~platform.HasRequiredSDKsInstalled
    THEN [threw |-> TRUE, value |-> NullToolchain, created |-> FALSE, platform |-> platform]
    ELSE LET toolchains == IF platform._toolchains.null THEN [k \in {} |-> NullToolchain]
                           ELSE platform._toolchains.dict
             key == targetArchitecture
         IN IF key \in DOMAIN toolchains
            THEN [threw |-> FALSE, value |-> toolchains[key], created |-> FALSE,
                  platform |-> [platform EXCEPT
                                    !._toolchains = [null |-> FALSE, dict |-> toolchains]]]
            ELSE LET toolchain == CreateToolchain(platform, targetArchitecture)
                     added == [k \in DOMAIN toolchains \cup {key} |->
                                   IF k = key THEN toolchain ELSE toolchains[k]]
                 IN [threw |-> FALSE, value |-> toolchain, created |-> TRUE,
                     platform |-> [platform EXCEPT
                                       !._toolchains = [null |-> FALSE, dict |-> added]]]

\* The number of toolchains the model lets the platforms cache
MaxToolchains == 2

\* The number of toolchains cached by the instances of list
RECURSIVE CachedToolchains(_, _)
CachedToolchains(list, i) ==
    IF i > Len(list) THEN 0
    ELSE Cardinality(DOMAIN list[i]._toolchains.dict) + CachedToolchains(list, i + 1)

\* GetToolchain called on the instance GetPlatform returned as index p
CallGetToolchain(p, targetArchitecture) ==
    /\ ~_platforms.null
    /\ p \in 1..Len(_platforms.list)
    /\ LET r == GetToolchain(_platforms.list[p], targetArchitecture)
           list == [_platforms.list EXCEPT ![p] = r.platform]
       IN /\ CachedToolchains(list, 1) <= MaxToolchains
          /\ _platforms' = [_platforms EXCEPT !.list = list]
          /\ ret' = [op |-> "GetToolchain", platform |-> p,
                     targetArchitecture |-> targetArchitecture, threw |-> r.threw,
                     value |-> r.value, created |-> r.created]
    /\ UNCHANGED <<cacheVars, hostVars, Sdk_sdks, _sdks, _toolsets>>

\* Types of the Flax.Build assembly: [Name, IsAbstract, BaseType, Target,
\* HasRequiredSDKsInstalled]; the last field is what the class answers when
\* it does not derive from WindowsPlatformBase
PlatformType(name, isAbstract, baseType, target, hasSdks) ==
    [Name |-> name, IsAbstract |-> isAbstract, BaseType |-> baseType, Target |-> target,
     HasRequiredSDKsInstalled |-> hasSdks]

\* What GetTypes() may return: the abstract base classes, a class that is not
\* a platform, and platforms deriving from WindowsPlatformBase or from Platform
AssemblySamples ==
    LET platform == PlatformType("Platform", TRUE, "Object", "", FALSE)
        windowsBase == PlatformType("WindowsPlatformBase", TRUE, "Platform", "", FALSE)
        toolchain == PlatformType("Toolchain", FALSE, "Object", "", FALSE)
        windows == PlatformType("WindowsPlatform", FALSE, "WindowsPlatformBase", "Windows", FALSE)
        uwp == PlatformType("UWPPlatform", FALSE, "WindowsPlatformBase", "UWP", FALSE)
    IN { <<platform, windowsBase, toolchain>>,
         <<platform, windowsBase, uwp, toolchain, windows>> }
       \cup { <<platform, windowsBase, windows,
                PlatformType("LinuxPlatform", FALSE, "Platform", "Linux", h)>> :
              h \in BOOLEAN }

\* Build hosts: the Windows 10 SDK 10.0.19041.0 in the directories "A" and
\* "B", "A" named or not by KitsRoot10 and "B" named or not by the v10.0
\* InstallationFolder; Visual Studio 2019 with toolset 14.29.30133 or no
\* Visual Studio
PlatformInit ==
    /\ CacheIdle
    /\ BuildStaticsInit
    /\ \E vKits \in {RegNone, RegString("A")}, v10 \in {RegNone, RegString("B")} :
           registry = [k \in { <<RegistryRoots[2], KitsRoot10Key[1], KitsRoot10Key[2]>>,
                               <<RegistryRoots[4], Sdk10Key[1], Sdk10Key[2]>> }
                           |-> IF k[2] = KitsRoot10Key[1] THEN vKits ELSE v10]
    /\ sdkDirs = [d \in {"A", "B"} |->
                      [has81Header |-> FALSE,
                       include |-> [exists |-> TRUE,
                                    dirs |-> {[name |-> <<49, 48, 46, 48, 46, 49, 57, 48, 52, 49, 46, 48>>,
                                               hasHeader |-> TRUE]}]]]
    /\ vsInstances \in
           { <<>>,
             <<[Version |-> "VisualStudio2019", Path |-> "VS1",
                vc |-> [exists |-> TRUE, amd64 |-> FALSE, x86_amd64 |-> FALSE,
                        msvc |-> [exists |-> TRUE,
                                  dirs |-> {[name |-> <<49, 52, 46, 50, 57, 46, 51, 48, 49, 51, 51>>,
                                             hostx64 |-> TRUE, hostx86 |-> FALSE]}]]]>> }
    /\ assembly \in AssemblySamples
    /\ gpu = <<>>

PlatformNext ==
    \/ \E targetPlatform \in TargetPlatforms, nullIfMissing \in BOOLEAN :
           CallGetPlatform(targetPlatform, nullIfMissing)
    \/ \E p \in 1..2, targetArchitecture \in TargetArchitectures :
           CallGetToolchain(p, targetArchitecture)
    \/ \E targetPlatform \in TargetPlatforms, targetArchitecture \in TargetArchitectures :
           CallIsPlatformSupported(targetPlatform, targetArchitecture)

SpecPlatform == PlatformInit /\ [][PlatformNext]_vars

-----------------------------------------------------------------------------
(* Sdk *)

\* The name passed to Sdk.Get: a null reference or a string
NullName == [null |-> TRUE, name |-> ""]

Name(str) == [null |-> FALSE, name |-> str]

\* No Sdk (a null reference)
NullSdk == [null |-> TRUE, Type |-> "", IsValid |-> FALSE, build |-> 0]

\* The instance of type that Get registers, or null: the value of the public
\* static field Instance when the type has one, else a new instance when
\* the type has a constructor without parameters.  build tells an instance
\* that Get created (in its build-th pass over the types) from the value of
\* a static field (0).
SdkInstanceOf(type, build) ==
    IF type.instanceField # "none"
    THEN IF type.instanceField = "null" THEN NullSdk
         ELSE [null |-> FALSE, Type |-> type.Name, IsValid |-> type.IsValid, build |-> 0]
    ELSE IF type.hasDefaultConstructor
         THEN [null |-> FALSE, Type |-> type.Name, IsValid |-> type.IsValid, build |-> build]
         ELSE NullSdk

\* foreach (var type in types) of Sdk.Get from type i on: [threw, dict]
RECURSIVE RegisterSdks(_, _, _, _)
RegisterSdks(st, types, i, build) ==
    IF st.threw \/ i > Len(types) THEN st
    ELSE CHOOSE r \in
             { RegisterSdks(next, types, i + 1, build) :
               next \in { IF ~types[i].IsAbstract /\ types[i].BaseType = "Sdk"
                          THEN CHOOSE q \in
                                   { IF instance.null THEN st
                                     ELSE DictAdd(st, types[i].Name, instance) :
                                     instance \in {SdkInstanceOf(types[i], build)} } : TRUE
                          ELSE st } } : TRUE

\* Sdk.Get(name) when the static _sdks is sdks: [threw, exception, value,
\* sdks].  _sdks is assigned before the types are looked at.
Get(sdks, name) ==
    CHOOSE r \in
        { IF built.threw
          THEN [threw |-> TRUE, exception |-> "ArgumentException", value |-> NullSdk,
                sdks |-> [null |-> FALSE, dict |-> built.dict, builds |-> built.builds]]
          ELSE IF name.null
               THEN [threw |-> TRUE, exception |-> "ArgumentNullException", value |-> NullSdk,
                     sdks |-> [null |-> FALSE, dict |-> built.dict, builds |-> built.builds]]
               ELSE [threw |-> FALSE, exception |-> "",
                     value |-> IF name.name \in DOMAIN built.dict THEN built.dict[name.name]
                               ELSE NullSdk,
                     sdks |-> [null |-> FALSE, dict |-> built.dict, builds |-> built.builds]] :
          built \in { IF sdks.null
                      THEN LET st == RegisterSdks([threw |-> FALSE, dict |-> [k \in {} |-> NullSdk]],
                                                  assembly, 1, sdks.builds + 1)
                           IN [threw |-> st.threw, dict |-> st.dict, builds |-> sdks.builds + 1]
                      ELSE [threw |-> FALSE, dict |-> sdks.dict, builds |-> sdks.builds] } } : TRUE

\* Sdk.HasValid(name): Get(name)?.IsValid ?? false
HasValid(sdks, name) ==
    CHOOSE r \in
        { [threw |-> g.threw, exception |-> g.exception, sdks |-> g.sdks,
           value |-> IF g.threw \/ g.value.null THEN FALSE ELSE g.value.IsValid] :
          g \in {Get(sdks, name)} } : TRUE

CallGet(name) ==
    /\ \E r \in {Get(Sdk_sdks, name)} :
           /\ Sdk_sdks' = r.sdks
           /\ ret' = [op |-> "Sdk.Get", name |-> name, threw |-> r.threw,
                      exception |-> r.exception, value |-> r.value]
    /\ UNCHANGED <<cacheVars, hostVars, _sdks, _toolsets, _platforms>>

CallHasValid(name) ==
    /\ \E r \in {HasValid(Sdk_sdks, name)} :
           /\ Sdk_sdks' = r.sdks
           /\ ret' = [op |-> "Sdk.HasValid", name |-> name, threw |-> r.threw,
                      exception |-> r.exception, value |-> r.value]
    /\ UNCHANGED <<cacheVars, hostVars, _sdks, _toolsets, _platforms>>

\* A type of the assembly as Sdk.Get looks at it: instanceField is "none"
\* (no public static field Instance), "null" or "instance" (its value)
SdkType(name, isAbstract, baseType, instanceField, hasDefaultConstructor, isValid) ==
    [Name |-> name, IsAbstract |-> isAbstract, BaseType |-> baseType,
     instanceField |-> instanceField, hasDefaultConstructor |-> hasDefaultConstructor,
     IsValid |-> isValid]

\* What GetTypes() may return: the abstract Sdk, an abstract subclass, a
\* class that is no Sdk, an Sdk with a static Instance (null or not), an Sdk
\* with a constructor without parameters and an Sdk with neither
SdkAssemblySamples ==
    { << SdkType("Sdk", TRUE, "Object", "none", FALSE, FALSE),
         SdkType("AbstractSdk", TRUE, "Sdk", "none", TRUE, FALSE),
         SdkType("NotAnSdk", FALSE, "Object", "instance", TRUE, TRUE),
         SdkType("FieldSdk", FALSE, "Sdk", field, TRUE, v[1]),
         SdkType("CtorSdk", FALSE, "Sdk", "none", TRUE, v[2]),
         SdkType("NoCtorSdk", FALSE, "Sdk", "none", FALSE, TRUE) >> :
      field \in {"null", "instance"}, v \in BOOLEAN \X BOOLEAN }

\* The names Get is called with: null, the empty string, the names of the
\* types and a name that differs from a type's name by case
NameSamples ==
    {NullName}
    \cup { Name(str) : str \in {"", "Sdk", "AbstractSdk", "NotAnSdk", "FieldSdk", "CtorSdk",
                                "NoCtorSdk", "ctorsdk"} }

SdkClassInit ==
    /\ CacheIdle
    /\ BuildStaticsInit
    /\ registry = <<>>
    /\ sdkDirs = <<>>
    /\ vsInstances = <<>>
    /\ assembly \in SdkAssemblySamples
    /\ gpu = <<>>

SdkClassNext ==
    \/ \E name \in NameSamples : CallGet(name)
    \/ \E name \in NameSamples : CallHasValid(name)

SpecSdkClass == SdkClassInit /\ [][SdkClassNext]_vars

-----------------------------------------------------------------------------
(* Shader arithmetic.  A float is modelled by a dyadic rational n / 2^e,  *)
(* [n, e] with n odd or e = 0; the values of the model have numerators    *)
(* below 2^24, so that float addition, multiplication and division by a   *)
(* power of two are exact on them.                                         *)

RECURSIVE Pow2(_)
Pow2(k) == IF k = 0 THEN 1 ELSE 2 * Pow2(k - 1)

RECURSIVE Normalize(_, _)
Normalize(n, e) ==
    IF e > 0 /\ n % 2 = 0 THEN Normalize(n \div 2, e - 1) ELSE [n |-> n, e |-> e]

Float(i) == [n |-> i, e |-> 0]

FAdd(x, y) ==
    LET e == IF x.e > y.e THEN x.e ELSE y.e
    IN Normalize(x.n * Pow2(e - x.e) + y.n * Pow2(e - y.e), e)

FSub(x, y) ==
    LET e == IF x.e > y.e THEN x.e ELSE y.e
    IN Normalize(x.n * Pow2(e - x.e) - y.n * Pow2(e - y.e), e)

FMul(x, y) == Normalize(x.n * y.n, x.e + y.e)

FLessEq(x, y) ==
    LET e == IF x.e > y.e THEN x.e ELSE y.e
    IN x.n * Pow2(e - x.e) <= y.n * Pow2(e - y.e)

FMax(x, y) == IF FLessEq(x, y) THEN y ELSE x

\* x / y for a divisor that is a power of two, 2^j / 2^y.e
RECURSIVE Log2(_)
Log2(n) == IF n <= 1 THEN 0 ELSE 1 + Log2(n \div 2)

FDiv(x, y) ==
    LET shift == Log2(y.n) - y.e
    IN IF shift >= 0 THEN Normalize(x.n, x.e + shift)
       ELSE Normalize(x.n * Pow2(0 - shift), x.e)

\* exp(-x) for x a non-negative whole number of units; the unit of
\* extinction times length in the model is ln 2, so that exp(-x) = 1 / 2^x
ExpNeg(x) == [n |-> 1, e |-> x.n]

\* The constant .00001f in the unit of the model (0.00001 / ln 2, about
\* 1 / 2^16)
ExtinctionEpsilon == [n |-> 1, e |-> 16]

\* Operations on float3
Float3Sub(a, b) == [i \in 1..3 |-> FSub(a[i], b[i])]

Float3Add(a, b) == [i \in 1..3 |-> FAdd(a[i], b[i])]

Float3Scale(a, x) == [i \in 1..3 |-> FMul(a[i], x)]

Float3Div(a, x) == [i \in 1..3 |-> FDiv(a[i], x)]

-----------------------------------------------------------------------------
(* CS_FinalIntegration *)

\* A faulty loop that multiplies the transmittance into alpha before it
\* adds the slice's scattering
RECURSIVE FinalIntegrationLoopAlphaFirst(_, _, _, _, _)
FinalIntegrationLoopAlphaFirst(LightScattering, stepLengths, layerIndex, acc, written) ==
    IF ~(layerIndex < Len(LightScattering)) THEN written
    ELSE LET scatteringAndExtinction == LightScattering[layerIndex + 1]
             stepLength == stepLengths[layerIndex + 1]
             transmittance == ExpNeg(FMul(scatteringAndExtinction.w, stepLength))
             scatteringIntegratedOverSlice ==
                 Float3Div(Float3Sub(scatteringAndExtinction.rgb,
                                     Float3Scale(scatteringAndExtinction.rgb, transmittance)),
                           FMax(scatteringAndExtinction.w, ExtinctionEpsilon))
             a == FMul(acc.a, transmittance)
         IN CHOOSE r \in
                { FinalIntegrationLoopAlphaFirst(LightScattering, stepLengths, layerIndex + 1,
                                                 next, Append(written, next)) :
                  next \in {[rgb |-> Float3Add(acc.rgb,
                                               Float3Scale(scatteringIntegratedOverSlice, a)),
                             a |-> a]} } : TRUE

\* The loop of CS_FinalIntegration over the layers of one (x, y) column from
\* layerIndex on: LightScattering is the column of the input texture as
\* [rgb, w], stepLengths[k + 1] the length(layerWorldPosition -
\* previousSliceWorldPosition) of layer k, acc the value of
\* accumulatedLightingAndTransmittance and written the values stored to
\* RWIntegratedLightScattering so far
RECURSIVE FinalIntegrationLoop(_, _, _, _, _)
FinalIntegrationLoop(LightScattering, stepLengths, layerIndex, acc, written) ==
    IF ~(layerIndex < Len(LightScattering)) THEN written
    ELSE LET scatteringAndExtinction == LightScattering[layerIndex + 1]
             stepLength == stepLengths[layerIndex + 1]
             transmittance == ExpNeg(FMul(scatteringAndExtinction.w, stepLength))
             scatteringIntegratedOverSlice ==
                 Float3Div(Float3Sub(scatteringAndExtinction.rgb,
                                     Float3Scale(scatteringAndExtinction.rgb, transmittance)),
                           FMax(scatteringAndExtinction.w, ExtinctionEpsilon))
         IN CHOOSE r \in
                { FinalIntegrationLoop(LightScattering, stepLengths, layerIndex + 1,
                                       next, Append(written, next)) :
                  next \in {[rgb |-> Float3Add(acc.rgb,
                                               Float3Scale(scatteringIntegratedOverSlice, acc.a)),
                             a |-> FMul(acc.a, transmittance)]} } : TRUE

\* float4(0, 0, 0, 1)
InitialAccumulated == [rgb |-> <<Float(0), Float(0), Float(0)>>, a |-> Float(1)]

\* One thread of CS_FinalIntegration: the values it writes to its column
CS_FinalIntegration(LightScattering, stepLengths) ==
    FinalIntegrationLoop(LightScattering, stepLengths, 0, InitialAccumulated, <<>>)

DispatchFinalIntegration ==
    /\ gpu.pass = "FinalIntegration"
    /\ ret' = [op |-> "CS_FinalIntegration",
               written |-> CS_FinalIntegration(gpu.LightScattering, gpu.stepLengths)]
    /\ UNCHANGED <<cacheVars, hostVars, Sdk_sdks, _sdks, _toolsets, _platforms>>

\* The number of layers of the grid (GridSizeInt.z) in the model
MaxLayers == 3

\* What CS_LightScattering stores in a cell: max(scatteringAndExtinction, 0),
\* here scattering (0, 0, 0) or (1, 0, 3) and extinction 0, 1 or 2
LightScatteringSamples ==
    [rgb : {<<Float(0), Float(0), Float(0)>>, <<Float(1), Float(0), Float(3)>>},
     w : {Float(0), Float(1), Float(2)}]

\* Distances between the centres of consecutive layers
StepLengthSamples == {Float(0), Float(1), Float(2)}

FinalIntegrationInit ==
    /\ CacheIdle
    /\ BuildStaticsInit
    /\ registry = <<>>
    /\ sdkDirs = <<>>
    /\ vsInstances = <<>>
    /\ assembly = <<>>
    /\ \E n \in 1..MaxLayers :
           \E column \in [1..n -> LightScatteringSamples],
              lengths \in [1..n -> StepLengthSamples] :
               gpu = [pass |-> "FinalIntegration", LightScattering |-> column,
                      stepLengths |-> lengths]

FinalIntegrationNext == DispatchFinalIntegration

SpecFinalIntegration == FinalIntegrationInit /\ [][FinalIntegrationNext]_vars

-----------------------------------------------------------------------------
(* CS_LightScattering, USE_TEMPORAL_REPROJECTION=1 *)

FLess(x, y) == FLessEq(x, y) /\ x # y

\* x < 0.001f
FLessThanThousandth(x) == x.n * 1000 < Pow2(x.e)

\* lerp(x, y, s) on float4: x + s * (y - x)
Lerp4(x, y, alpha) == [i \in 1..4 |-> FAdd(x[i], FMul(alpha, FSub(y[i], x[i])))]

\* max(x, 0) on float4
Max4Zero(x) == [i \in 1..4 |-> FMax(x[i], Float(0))]

\* all(gridCoordinate < GridSizeInt)
InsideGrid(gridCoordinate, GridSizeInt) ==
    \A i \in 1..3 : gridCoordinate[i] < GridSizeInt[i]

\* A faulty history test that forgets the upper bound of the UV
HistoryAlphaLowerBoundOnly(historyUV, HistoryWeight) ==
    IF \E i \in 1..3 : FLess(historyUV[i], Float(0))
    THEN Float(0)
    ELSE HistoryWeight

\* historyAlpha after "Discard history if it lays outside the current view"
HistoryAlpha(historyUV, HistoryWeight) ==
    IF (\E i \in 1..3 : FLess(historyUV[i], Float(0)))
       \/ (\E i \in 1..3 : FLess(Float(1), historyUV[i]))
    THEN Float(0)
    ELSE HistoryWeight

\* numSuperSamples
NumSuperSamples(historyAlpha, gridCoordinate, GridSizeInt, HistoryMissSuperSampleCount) ==
    IF FLessThanThousandth(historyAlpha) /\ InsideGrid(gridCoordinate, GridSizeInt)
    THEN HistoryMissSuperSampleCount
    ELSE 1

\* The loop over the samples from sampleIndex on: sampleLighting[i + 1] is
\* what the directional light and the sky light add for sample i
RECURSIVE SuperSampleLoop(_, _, _, _)
SuperSampleLoop(sampleLighting, numSuperSamples, sampleIndex, lightScattering) ==
    IF ~(sampleIndex < numSuperSamples) THEN lightScattering
    ELSE CHOOSE r \in
             { SuperSampleLoop(sampleLighting, numSuperSamples, sampleIndex + 1, next) :
               next \in {Float3Add(lightScattering, sampleLighting[sampleIndex + 1])} } : TRUE

\* scatteringAndExtinction of the current frame for a cell that takes
\* numSuperSamples samples; in is the cell's input, with luminance the
\* value of Luminance(materialScatteringAndAbsorption.xyz)
CurrentScatteringAndExtinction(in, numSuperSamples) ==
    LET summed == SuperSampleLoop(in.sampleLighting, numSuperSamples, 0,
                                  <<Float(0), Float(0), Float(0)>>)
        lightScattering == Float3Add(Float3Div(summed, Float(numSuperSamples)),
                                     in.LocalShadowedLightScattering)
        extinction == FAdd(in.VBufferA[4], in.luminance)
    IN << FAdd(FMul(lightScattering[1], in.VBufferA[1]), in.VBufferB[1]),
          FAdd(FMul(lightScattering[2], in.VBufferA[2]), in.VBufferB[2]),
          FAdd(FMul(lightScattering[3], in.VBufferA[3]), in.VBufferB[3]),
          extinction >>

\* One thread of CS_LightScattering: [numSuperSamples, blended, written,
\* value]; written tells whether the thread stores value to RWLightScattering
CS_LightScattering(in) ==
    CHOOSE r \in
        { CHOOSE q \in
              { CHOOSE p \in
                    { [numSuperSamples |-> numSuperSamples,
                       blended |-> FLess(Float(0), historyAlpha),
                       written |-> InsideGrid(in.gridCoordinate, in.GridSizeInt),
                       value |-> Max4Zero(IF FLess(Float(0), historyAlpha)
                                          THEN Lerp4(current, in.history, historyAlpha)
                                          ELSE current)] :
                      current \in {CurrentScatteringAndExtinction(in, numSuperSamples)} } : TRUE :
                numSuperSamples \in {NumSuperSamples(historyAlpha, in.gridCoordinate,
                                                     in.GridSizeInt,
                                                     in.HistoryMissSuperSampleCount)} } : TRUE :
          historyAlpha \in {HistoryAlpha(in.historyUV, in.HistoryWeight)} } : TRUE

DispatchLightScattering ==
    /\ gpu.pass = "LightScattering"
    /\ ret' = [op |-> "CS_LightScattering", result |-> CS_LightScattering(gpu)]
    /\ UNCHANGED <<cacheVars, hostVars, Sdk_sdks, _sdks, _toolsets, _platforms>>

\* Components of a reprojected UV: -1/2, 0, 1/2, 1 and 3/2
HistoryUVSamples == {[n |-> -1, e |-> 1], Float(0), [n |-> 1, e |-> 1], Float(1), [n |-> 3, e |-> 1]}

\* HistoryWeight: -1/2, 0, 1/2048 (below 0.001), 1/2 and 1
HistoryWeightSamples ==
    {[n |-> -1, e |-> 1], Float(0), [n |-> 1, e |-> 11], [n |-> 1, e |-> 1], Float(1)}

\* Threads of a dispatch over a grid of 2 x 2 x 2 cells: two cells and
\* extra threads beyond the grid in x and in z
GridCoordinateSamples == {<<0, 0, 0>>, <<1, 1, 1>>, <<2, 1, 0>>, <<0, 0, 2>>}

\* HistoryMissSuperSampleCount
SuperSampleCountSamples == {1, 2, 4}

LightScatteringInit ==
    /\ CacheIdle
    /\ BuildStaticsInit
    /\ registry = <<>>
    /\ sdkDirs = <<>>
    /\ vsInstances = <<>>
    /\ assembly = <<>>
    /\ \E uv \in [1..3 -> HistoryUVSamples], weight \in HistoryWeightSamples,
          coordinate \in GridCoordinateSamples, count \in SuperSampleCountSamples :
           gpu = [pass |-> "LightScattering",
                  historyUV |-> uv,
                  HistoryWeight |-> weight,
                  gridCoordinate |-> coordinate,
                  GridSizeInt |-> <<2, 2, 2>>,
                  HistoryMissSuperSampleCount |-> count,
                  sampleLighting |-> [i \in 1..4 |-> <<Float(4 * i), Float(8), Float(0)>>],
                  LocalShadowedLightScattering |-> <<Float(1), Float(0), Float(0)>>,
                  VBufferA |-> <<[n |-> 1, e |-> 1], Float(1), Float(1), [n |-> 1, e |-> 2]>>,
                  luminance |-> [n |-> 3, e |-> 2],
                  VBufferB |-> <<Float(0), Float(0), Float(1)>>,
                  history |-> <<Float(16), Float(0), Float(2), Float(3)>>]

LightScatteringNext == DispatchLightScattering

SpecLightScattering == LightScatteringInit /\ [][LightScatteringNext]_vars

-----------------------------------------------------------------------------
(* GetAtmosphericFog *)

\* The fog code multiplies by the decimal literals 0.0001f and 0.997f: its
\* numbers are modelled as decimals n / 10^e, with n not a multiple of ten
Pow10(k) == IF k <= 0 THEN 1 ELSE [i \in 1..9 |-> 10 ^ i][k]

RECURSIVE NormalizeDecimal(_, _)
NormalizeDecimal(n, e) ==
    IF n = 0 THEN [n |-> 0, e |-> 0]
    ELSE IF n % 10 = 0 THEN NormalizeDecimal(n \div 10, e - 1)
    ELSE [n |-> n, e |-> e]

Decimal(n, e) == NormalizeDecimal(n, e)

\* The numerator of x at the exponent e >= x.e
ScaledTo(x, e) == x.n * Pow10(e - x.e)

CommonExponent(x, y) == IF x.e >= y.e THEN x.e ELSE y.e

DMul(x, y) == NormalizeDecimal(x.n * y.n, x.e + y.e)

DAdd(x, y) ==
    NormalizeDecimal(ScaledTo(x, CommonExponent(x, y)) + ScaledTo(y, CommonExponent(x, y)),
                     CommonExponent(x, y))

DLess(x, y) == ScaledTo(x, CommonExponent(x, y)) < ScaledTo(y, CommonExponent(x, y))

DMin(x, y) == IF DLess(y, x) THEN y ELSE x

\* A depth limit that forgets the 100 km term
DepthThresholdFarPlaneOnly(atmosphericFog, viewFar, scale) ==
    DMul(DMul(viewFar, Decimal(997, 3)), scale)

\* depthThreshold: 100km limit or far plane
DepthThreshold(atmosphericFog, viewFar, scale) ==
    DMin(DMul(Decimal(100, 0), atmosphericFog.AtmosphericFogDistanceScale),
         DMul(DMul(viewFar, Decimal(997, 3)), scale))

\* The value returned for a pixel; sun, groundColor and inscatterColor are
\* what GetSunColor, GetGroundColor and GetInscatterColor return for it
GetAtmosphericFog(atmosphericFog, viewFar, sceneDepth, sun, groundColor, inscatterColor) ==
    LET scale == DMul(Decimal(1, 4), atmosphericFog.AtmosphericFogDistanceScale)
        depthThreshold == DepthThreshold(atmosphericFog, viewFar, scale)
        scaledDepth == DMul(sceneDepth, scale)
        isSceneGeometry == DLess(scaledDepth, depthThreshold)
        color == [i \in 1..3 |->
                     DMul(DMul(atmosphericFog.AtmosphericFogSunPower,
                               DAdd(DAdd(sun[i], groundColor[i]), inscatterColor[i])),
                          atmosphericFog.AtmosphericFogSunColor[i])]
    IN IF isSceneGeometry
       THEN <<Decimal(0, 0), Decimal(0, 0), Decimal(0, 0), Decimal(0, 0)>>
       ELSE <<color[1], color[2], color[3], Decimal(1, 0)>>

ShadeAtmosphericFog ==
    /\ gpu.pass = "AtmosphericFog"
    /\ ret' = [op |-> "GetAtmosphericFog",
               result |-> GetAtmosphericFog(gpu.atmosphericFog, Decimal(gpu.viewFar, 0),
                                            Decimal(gpu.sceneDepth, 0), gpu.sun,
                                            gpu.groundColor, gpu.inscatterColor)]
    /\ UNCHANGED <<cacheVars, hostVars, Sdk_sdks, _sdks, _toolsets, _platforms>>

\* Scene depths around the two limits: 0.997 of a far plane at 10000 and
\* the 100 km limit at a distance scale of 1
SceneDepthSamples == {0, 9969, 9970, 999999, 1000000, 1000001}

\* Far planes: one whose limit is below the 100 km limit and one beyond it
ViewFarSamples == {10000, 1050000}

\* AtmosphericFogDistanceScale
DistanceScaleSamples == {-1, 0, 1, 2}

\* Colours returned by the sun, ground and inscatter functions
FogColorSamples ==
    {<<Decimal(0, 0), Decimal(0, 0), Decimal(0, 0)>>,
     <<Decimal(1, 0), Decimal(5, 1), Decimal(25, 2)>>}

AtmosphericFogInit ==
    /\ CacheIdle
    /\ BuildStaticsInit
    /\ registry = <<>>
    /\ sdkDirs = <<>>
    /\ vsInstances = <<>>
    /\ assembly = <<>>
    /\ \E depth \in SceneDepthSamples, far \in ViewFarSamples,
          distanceScale \in DistanceScaleSamples, power \in {Decimal(0, 0), Decimal(2, 0)},
          sunColor \in {<<Decimal(1, 0), Decimal(1, 0), Decimal(1, 0)>>,
                        <<Decimal(1, 0), Decimal(5, 1), Decimal(0, 0)>>},
          s \in FogColorSamples, g \in FogColorSamples, i \in FogColorSamples :
           gpu = [pass |-> "AtmosphericFog",
                  atmosphericFog |-> [AtmosphericFogDistanceScale |-> Decimal(distanceScale, 0),
                                      AtmosphericFogSunPower |-> power,
                                      AtmosphericFogSunColor |-> sunColor],
                  viewFar |-> far,
                  sceneDepth |-> depth,
                  sun |-> s,
                  groundColor |-> g,
                  inscatterColor |-> i]

AtmosphericFogNext == ShadeAtmosphericFog

SpecAtmosphericFog == AtmosphericFogInit /\ [][AtmosphericFogNext]_vars

-----------------------------------------------------------------------------
(* Properties of EditorCacheModule *)

\* The entry of key k, or "absent"
Entry(d, k) == IF k \in DOMAIN d THEN <<"present", d[k]>> ELSE <<"absent", Null>>

\* What a step's call was: lastOp' names it (a call that repeats the last
\* one without changing anything is a stuttering step)
C1_AfterSet ==
    (lastOp.op = "SetCustomData" /\ ~lastOp.threw) =>
        /\ HasCustomData(lastOp.key) = [threw |-> FALSE, ret |-> TRUE]
        /\ TryGetCustomData(lastOp.key) = [threw |-> FALSE, ret |-> TRUE, value |-> lastOp.value]
        /\ GetCustomData(lastOp.key) = [threw |-> FALSE, ret |-> lastOp.value]

C1_Absent ==
    \A k \in KeySamples :
        k \notin DOMAIN _customData =>
            /\ HasCustomData(Str(k)) = [threw |-> FALSE, ret |-> FALSE]
            /\ TryGetCustomData(Str(k)) = [threw |-> FALSE, ret |-> FALSE, value |-> Null]

C1_Step ==
    \A k \in KeySamples :
        /\ (lastOp'.op = "SetCustomData" /\ lastOp'.key # Str(k))
               => Entry(_customData', k) = Entry(_customData, k)
        /\ (/\ k \in DOMAIN _customData
            /\ ~(lastOp'.op \in {"SetCustomData", "RemoveCustomData"} /\ lastOp'.key = Str(k))
            /\ lastOp'.op \notin {"OnInit", ".ctor"})
               => Entry(_customData', k) = Entry(_customData, k)

\* C1: after SetCustomData(k, v), and until the next SetCustomData(k, _),
\* RemoveCustomData(k) or load, HasCustomData(k) is true, TryGetCustomData(k)
\* returns true with v and GetCustomData(k) returns v; the call leaves the
\* values of all other keys unchanged; for a key that is not present
\* HasCustomData is false and TryGetCustomData returns false with null.
C1_SetCustomData == [](C1_AfterSet /\ C1_Absent) /\ [][C1_Step]_vars

\* C1 witness: a successful SetCustomData on one key while the other key
\* holds a value
C1_Witness ==
    /\ lastOp.op = "SetCustomData"
    /\ ~lastOp.threw
    /\ DOMAIN _customData = KeySamples
    /\ \E k \in KeySamples : _customData[k] # lastOp.value

C3_AfterRemove ==
    (lastOp.op = "RemoveCustomData" /\ ~lastOp.threw) =>
        /\ HasCustomData(lastOp.key) = [threw |-> FALSE, ret |-> FALSE]
        /\ TryGetCustomData(lastOp.key) = [threw |-> FALSE, ret |-> FALSE, value |-> Null]

C3_Step ==
    lastOp'.op = "RemoveCustomData" =>
        /\ \A k \in KeySamples :
               lastOp'.key # Str(k) => Entry(_customData', k) = Entry(_customData, k)
        /\ (lastOp'.key.null \/ lastOp'.key.chars \notin DOMAIN _customData)
               => (_customData' = _customData /\ _isDirty' = _isDirty)

\* C3: RemoveCustomData(k) removes the data of k (HasCustomData(k) is then
\* false and TryGetCustomData(k) returns false), every other key keeps its
\* value, and for a key that is not present neither the data nor the dirty
\* flag changes.
C3_RemoveCustomData == []C3_AfterRemove /\ [][C3_Step]_vars

\* C3 witness: a key has been removed while the other key is present
C3_Witness ==
    /\ lastOp.op = "RemoveCustomData"
    /\ ~lastOp.threw
    /\ _isDirty
    /\ DOMAIN _customData = KeySamples \ {lastOp.key.chars}

\* The sample values that are boolean texts, with their values
SampleBooleans ==
    { <<Str(TrueString), TRUE>>, <<Str(FalseString), FALSE>>,
      <<Str(<<32, 102, 65, 76, 83, 69, 9>>), FALSE>> }

\* C4: TryGetCustomData(key, out bool value) returns true exactly when the
\* key is present and its string parses as a boolean, value being the parsed
\* boolean, and returns false with value false otherwise; after
\* SetCustomData(key, b) with a bool b it returns true with value b.
C4_TryGetBool ==
    /\ \A k \in KeySamples :
           LET r == TryGetCustomDataBool(Str(k)) IN
           /\ ~r.threw
           /\ r.ret <=> (/\ k \in DOMAIN _customData
                         /\ \E sb \in SampleBooleans : sb[1] = _customData[k])
           /\ r.ret => <<_customData[k], r.value>> \in SampleBooleans
           /\ ~r.ret => r.value = FALSE
    /\ \A b \in BOOLEAN :
           (lastOp.op = "SetCustomData" /\ ~lastOp.threw /\ lastOp.value = BoolToString(b))
               => TryGetCustomDataBool(lastOp.key) = [threw |-> FALSE, ret |-> TRUE, value |-> b]

\* C4 witness: one key holds a padded, mixed-case boolean text that parses,
\* the other a text that does not
C4_Witness ==
    /\ DOMAIN _customData = KeySamples
    /\ \E k \in KeySamples :
           /\ _customData[k] = Str(<<32, 102, 65, 76, 83, 69, 9>>)
           /\ TryGetCustomDataBool(Str(k)).ret
    /\ \E k \in KeySamples :
           /\ _customData[k] = Str(<<>>)
           /\ ~TryGetCustomDataBool(Str(k)).ret

-----------------------------------------------------------------------------
(* Properties of WindowsPlatformBase's registry probing *)

\* Root i holds a non-empty string for the value
HoldsDir(i, keySuffix, valueName) ==
    LET v == RegistryGetValue(RegistryRoots[i], keySuffix, valueName)
    IN v.kind = "string" /\ v.str # ""

\* C8: TryReadInstallDirRegistryKey32 probes HKCU\SOFTWARE, HKLM\SOFTWARE,
\* HKCU\SOFTWARE\Wow6432Node and HKLM\SOFTWARE\Wow6432Node in this order; it
\* returns true iff one of the four holds a non-empty string, dir is then the
\* value of the first such root, and otherwise it returns false with a null
\* dir.
C8_RegistryProbeOrder ==
    ret.op = "TryReadInstallDirRegistryKey32" =>
        LET hits == {i \in 1..4 : HoldsDir(i, ret.keySuffix, ret.valueName)}
            r == ret.result
        IN /\ r.ok <=> hits # {}
           /\ hits # {} =>
                 LET first == CHOOSE i \in hits : \A j \in hits : i <= j
                 IN /\ r.dir = Dir(RegistryGetValue(RegistryRoots[first], ret.keySuffix,
                                                    ret.valueName).str)
                    /\ r.probes = SubSeq(RegistryRoots, 1, first)
           /\ hits = {} => (r.dir = NoDir /\ r.probes = RegistryRoots)

\* C8 witness: the per-user key holds an empty string, the machine key a
\* number, and both Wow6432Node keys a directory; the third root answers
C8_Witness ==
    /\ ret.op = "TryReadInstallDirRegistryKey32"
    /\ ret.result.ok
    /\ ret.result.dir = Dir("B")
    /\ ~HoldsDir(1, ret.keySuffix, ret.valueName)
    /\ ~HoldsDir(2, ret.keySuffix, ret.valueName)
    /\ RegistryGetValue(RegistryRoots[4], ret.keySuffix, ret.valueName) = RegString("A")

-----------------------------------------------------------------------------
(* Properties of WindowsPlatformBase.GetSDKs *)

\* The decimal digits of n
RECURSIVE Digits(_)
Digits(n) == IF n < 10 THEN <<48 + n>> ELSE Digits(n \div 10) \o <<48 + (n % 10)>>

\* The directory name "10.0.<build>.0"
VersionDirName(build) == <<49, 48, 46, 48, 46>> \o Digits(build) \o <<46, 48>>

\* Some registered Windows 10 root contains Include/<version>/um/windows.h
RootContains(build) ==
    \E r \in Sdk10Roots :
        /\ IncludeExists(r)
        /\ [name |-> VersionDirName(build), hasHeader |-> TRUE] \in sdkDirs[r].include.dirs

\* The 8.1 install folder contains Include/um/windows.h
Sdk81Installed ==
    LET sdk81 == TryReadInstallDirRegistryKey32(Sdk81Key[1], Sdk81Key[2])
    IN sdk81.ok /\ Has81Header(sdk81.dir.path)

\* What the result of GetSDKs should hold
SdksFound(dict) ==
    /\ "v8_1" \in DOMAIN dict <=> Sdk81Installed
    /\ \A i \in 1..Len(Windows10SDKs) :
           Windows10SDKs[i][1] \in DOMAIN dict <=> RootContains(Windows10SDKs[i][2])

\* C9: GetSDKs returns, without an exception and for every host state, a
\* collection with v8_1 iff the 8.1 install folder contains
\* Include/um/windows.h and with each known Windows 10 SDK version iff some
\* registered Windows 10 root contains Include/<version>/um/windows.h, also
\* when two distinct roots contain the same SDK version.
C9_GetSDKs ==
    ret.op = "GetSDKs" => (~ret.threw /\ SdksFound(ret.value))

-----------------------------------------------------------------------------
(* Properties of WindowsPlatformBase.GetToolsets *)

\* name is the text of a version with the given major and minor numbers
HasMajorMinor(name, major, minor) ==
    LET prefix == Digits(major) \o <<46>> \o Digits(minor)
    IN /\ Len(name) >= Len(prefix)
       /\ SubSeq(name, 1, Len(prefix)) = prefix
       /\ Len(name) > Len(prefix) => name[Len(prefix) + 1] = 46
       /\ \A i \in 1..Len(name) : name[i] = 46 \/ (name[i] >= 48 /\ name[i] <= 57)

\* The VC directories of Visual Studio 2015 instances with a compiler that
\* targets 64 bits
Vc2015Dirs ==
    { VcDir(vsInstances[i].Path) :
        i \in { j \in 1..Len(vsInstances) :
                  /\ vsInstances[j].Version = "VisualStudio2015"
                  /\ vsInstances[j].vc.exists
                  /\ (vsInstances[j].vc.amd64 \/ vsInstances[j].vc.x86_amd64) } }

\* The VC\Tools\MSVC\<version> directories of Visual Studio 2017 and 2019
\* instances with major 14, a minor in lo..hi and a compiler that targets x64
MsvcDirs(lo, hi) ==
    UNION { { MsvcDir(vsInstances[i].Path, d.name) :
                d \in { e \in vsInstances[i].vc.msvc.dirs :
                          /\ e.hostx64 \/ e.hostx86
                          /\ \E minor \in lo..hi : HasMajorMinor(e.name, 14, minor) } } :
            i \in { j \in 1..Len(vsInstances) :
                      /\ vsInstances[j].Version \in {"VisualStudio2017", "VisualStudio2019"}
                      /\ vsInstances[j].vc.exists
                      /\ vsInstances[j].vc.msvc.exists } }

\* C10: GetToolsets returns v140 iff a Visual Studio 2015 instance has a VC
\* directory with bin/amd64/cl.exe or bin/x86_amd64/cl.exe, and v141 (v142)
\* iff some Visual Studio 2017 or 2019 instance has a VC/Tools/MSVC/<version>
\* directory with major 14 and minor 10..19 (20..29) that holds
\* bin/Hostx64/x64/cl.exe or bin/Hostx86/x64/cl.exe; no other directory is
\* ever in the result.
C10_GetToolsets ==
    ret.op = "GetToolsets" =>
        LET v == ret.value IN
        /\ DOMAIN v \subseteq {"v140", "v141", "v142"}
        /\ "v140" \in DOMAIN v <=> Vc2015Dirs # {}
        /\ "v141" \in DOMAIN v <=> MsvcDirs(10, 19) # {}
        /\ "v142" \in DOMAIN v <=> MsvcDirs(20, 29) # {}
        /\ "v140" \in DOMAIN v => v["v140"] \in Vc2015Dirs
        /\ "v141" \in DOMAIN v => v["v141"] \in MsvcDirs(10, 19)
        /\ "v142" \in DOMAIN v => v["v142"] \in MsvcDirs(20, 29)

\* C10 witness: v141 is found through a compiler hosted on x86 only, while
\* the other instance holds a 14.30 directory with a compiler, which is not
\* in the result
C10_Witness ==
    /\ ret.op = "GetToolsets"
    /\ DOMAIN ret.value = {"v141"}
    /\ \E i \in 1..Len(vsInstances) :
           \E d \in vsInstances[i].vc.msvc.dirs :
               d.name = <<49, 52, 46, 49, 48, 46, 50, 53, 48, 49, 55>> /\ ~d.hostx64
    /\ \E i \in 1..Len(vsInstances) :
           \E d \in vsInstances[i].vc.msvc.dirs :
               d.name = <<49, 52, 46, 51, 48, 46, 51, 48, 55, 48, 53>> /\ d.hostx64

-----------------------------------------------------------------------------
(* Properties of Platform *)

\* The instance a GetToolchain call was made on
Receiver == _platforms.list[ret.platform]

\* What a GetToolchain call left behind
C5_AfterGetToolchain ==
    ret.op = "GetToolchain" =>
        IF ~Receiver.HasRequiredSDKsInstalled
        THEN ret.threw /\ ~ret.created /\ Receiver._toolchains.null
        ELSE /\ ~ret.threw
             /\ ret.value # NullToolchain
             /\ ret.value.Architecture = ret.targetArchitecture
             /\ ret.value.Platform = Receiver.Type

\* A GetToolchain call on a platform without its SDKs changes no instance
C5_Step ==
    (ret'.op = "GetToolchain"
     /\ ~_platforms'.list[ret'.platform].HasRequiredSDKsInstalled)
        => (ret'.threw /\ ~ret'.created /\ _platforms' = _platforms)

\* C5: GetToolchain(arch) throws when the platform's HasRequiredSDKsInstalled
\* is false, for every architecture, without calling CreateToolchain and
\* without adding anything to the toolchain cache; when
\* HasRequiredSDKsInstalled is true it returns a toolchain for arch.
C5_GetToolchain == []C5_AfterGetToolchain /\ [][C5_Step]_vars

\* C5 witness: GetToolchain throws on a Windows platform of a host without
\* its SDKs after another platform of the same list has created a toolchain
C5_Witness ==
    /\ ret.op = "GetToolchain"
    /\ ret.threw
    /\ Receiver.Type = "WindowsPlatform"
    /\ \E i \in 1..Len(_platforms.list) :
           /\ _platforms.list[i].HasRequiredSDKsInstalled
           /\ DOMAIN _platforms.list[i]._toolchains.dict # {}

\* The assembly has a concrete subclass of Platform with this Target
ConcreteSubclassExists(target) ==
    \E i \in 1..Len(assembly) :
        /\ ~assembly[i].IsAbstract
        /\ assembly[i].BaseType \in {"Platform", "WindowsPlatformBase"}
        /\ assembly[i].Target = target

\* What a GetPlatform call returned
C6_AfterGetPlatform ==
    ret.op = "GetPlatform" =>
        IF ConcreteSubclassExists(ret.targetPlatform)
        THEN /\ ~ret.threw
             /\ ret.value # 0
             /\ _platforms.list[ret.value].Target = ret.targetPlatform
        ELSE IF ret.nullIfMissing THEN ~ret.threw /\ ret.value = 0 ELSE ret.threw

\* A call that follows a call with the same target returns the same instance,
\* and the list of platforms, once created, is not created again
C6_Step ==
    /\ (ret.op = "GetPlatform" /\ ret'.op = "GetPlatform"
        /\ ret'.targetPlatform = ret.targetPlatform /\ ~ret.threw /\ ~ret'.threw)
           => ret'.value = ret.value
    /\ (ret.op = "GetPlatform" /\ ret'.op = "GetPlatform") => (ret' = ret \/ ~ret'.created)

\* C6: GetPlatform(target, nullIfMissing) returns a platform instance whose
\* Target equals target whenever a concrete Platform subclass with that
\* Target exists; when none exists it returns null if nullIfMissing is true
\* and throws otherwise; repeated calls with the same target return the same
\* instance, the platform list being created once.
C6_GetPlatform == []C6_AfterGetPlatform /\ [][C6_Step]_vars

\* The (platform, architecture) pairs of the table
SupportedPairs ==
    { <<"Windows", "x64">>, <<"Windows", "x86">>, <<"XboxScarlett", "x64">>,
      <<"XboxOne", "x64">>, <<"UWP", "x64">>, <<"Linux", "x64">>, <<"PS4", "x64">>,
      <<"Android", "ARM64">> }

\* C7: IsPlatformSupported(platform, arch) returns true for arch = AnyCPU on
\* every platform, also one that is not in the table; otherwise it returns
\* true exactly for Windows with x64 or x86, for XboxScarlett, XboxOne, UWP,
\* Linux and PS4 with x64 and for Android with ARM64, and false for every
\* other pair.
C7_IsPlatformSupported ==
    ret.op = "IsPlatformSupported" =>
        (ret.value <=> (\/ ret.targetArchitecture = "AnyCPU"
                        \/ <<ret.targetPlatform, ret.targetArchitecture>> \in SupportedPairs))

\* C7 witness: AnyCPU is supported on a platform that is not in the table
C7_Witness ==
    /\ ret.op = "IsPlatformSupported"
    /\ ret.targetPlatform = "Other"
    /\ ret.targetArchitecture = "AnyCPU"
    /\ ret.value

-----------------------------------------------------------------------------
(* Properties of WindowsPlatformBase.GetVCToolPath64 *)

\* The directory dir of toolset holds the compiler hosted on 64 bits
\* (bin/amd64 for v140, bin/HostX64/x64 for v141 and v142)
NativeCompilerIn(dir, toolset) ==
    \E i \in 1..Len(vsInstances) :
        /\ vsInstances[i].Path = dir.root
        /\ IF toolset = "v140" THEN dir.kind = "VC" /\ vsInstances[i].vc.amd64
           ELSE /\ dir.kind = "MSVC"
                /\ \E e \in vsInstances[i].vc.msvc.dirs : e.name = dir.name /\ e.hostx64

\* The directory dir of toolset holds the compiler hosted on x86
\* (bin/x86_amd64 for v140, bin/HostX86/x64 for v141 and v142)
CrossCompilerIn(dir, toolset) ==
    \E i \in 1..Len(vsInstances) :
        /\ vsInstances[i].Path = dir.root
        /\ IF toolset = "v140" THEN dir.kind = "VC" /\ vsInstances[i].vc.x86_amd64
           ELSE /\ dir.kind = "MSVC"
                /\ \E e \in vsInstances[i].vc.msvc.dirs : e.name = dir.name /\ e.hostx86

\* C11: for every toolset key that GetToolsets reports, GetVCToolPath64
\* returns the directory of an existing compiler that targets 64 bits: the
\* one hosted on 64 bits (bin/amd64, bin/HostX64/x64) when it exists, the one
\* hosted on x86 (bin/x86_amd64, bin/HostX86/x64) only when the former does
\* not; it throws only when neither file exists.
C11_GetVCToolPath64 ==
    (ret.op = "GetVCToolPath64" /\ ret.toolset \in DOMAIN _toolsets.dict) =>
        LET dir == _toolsets.dict[ret.toolset]
            native == NativeCompilerIn(dir, ret.toolset)
            cross == CrossCompilerIn(dir, ret.toolset)
        IN /\ ret.threw <=> (~native /\ ~cross)
           /\ ~ret.threw
           /\ ret.value.dir = dir
           /\ native => ret.value.sub = (IF ret.toolset = "v140" THEN <<Amd64>>
                                         ELSE <<HostX64, X64>>)
           /\ ~native => ret.value.sub = (IF ret.toolset = "v140" THEN <<X86Amd64>>
                                          ELSE <<HostX86, X64>>)

\* C11 witness: the v142 directory holds both compilers and the one hosted
\* on 64 bits is returned
C11_Witness ==
    /\ ret.op = "GetVCToolPath64"
    /\ ret.toolset = "v142"
    /\ ~ret.threw
    /\ NativeCompilerIn(ret.value.dir, "v142")
    /\ CrossCompilerIn(ret.value.dir, "v142")
    /\ ret.value.sub = <<HostX64, X64>>

-----------------------------------------------------------------------------
(* Properties of Sdk *)

\* The concrete subclasses of Sdk named name that have an instance to
\* register
RegisteredTypes(name) ==
    { i \in 1..Len(assembly) :
        /\ assembly[i].Name = name
        /\ ~assembly[i].IsAbstract
        /\ assembly[i].BaseType = "Sdk"
        /\ \/ assembly[i].instanceField = "instance"
           \/ assembly[i].instanceField = "none" /\ assembly[i].hasDefaultConstructor }

\* What a call of Get or HasValid returned
C12_AfterCall ==
    /\ ret.op = "Sdk.Get" =>
           /\ ~ret.threw
           /\ IF ~ret.name.null /\ RegisteredTypes(ret.name.name) # {}
              THEN ~ret.value.null /\ ret.value.Type = ret.name.name
              ELSE ret.value.null
    /\ ret.op = "Sdk.HasValid" =>
           /\ ~ret.threw
           /\ ret.value <=> (/\ ~ret.name.null
                             /\ \E i \in RegisteredTypes(ret.name.name) : assembly[i].IsValid)

\* The registry, once built, keeps its instances
C12_Step == ~Sdk_sdks.null => Sdk_sdks' = Sdk_sdks

\* C12: Sdk.Get(name) returns the registered SDK instance whose type name
\* equals name, or null if no such SDK is supported, and throws for no name;
\* Sdk.HasValid(name) is true iff such an instance is registered and its
\* IsValid is true; the registry is built on the first call only, so later
\* calls return the same instances.
C12_SdkGet == []C12_AfterCall /\ [][C12_Step]_vars

-----------------------------------------------------------------------------
(* Properties of CS_FinalIntegration *)

\* The optical depth of layers 0..k-1 of the column, in units of ln 2
RECURSIVE OpticalDepth(_)
OpticalDepth(k) ==
    IF k = 0 THEN 0
    ELSE OpticalDepth(k - 1) + gpu.LightScattering[k].w.n * gpu.stepLengths[k].n

\* The product of the transmittances exp(-extinction * stepLength) of
\* layers 0..k-1
TransmittanceBefore(k) == Normalize(1, OpticalDepth(k))

\* (S - S * T) / max(extinction, 0.00001) of layer k-1, channel c, as the
\* multiple of 1 / 2^20 it is
IntegratedOverSlice(k, c) ==
    LET cell == gpu.LightScattering[k]
        t == cell.w.n * gpu.stepLengths[k].n
        S == cell.rgb[c].n
    IN IF cell.w.n = 0 THEN 0
       ELSE ((S * Pow2(t) - S) * Pow2(20 - t)) \div cell.w.n

\* A float as a multiple of 1 / 2^20
Fixed20(x) == x.n * Pow2(20 - x.e)

\* C13: for every column the accumulated transmittance starts at 1, the
\* alpha written for layer k is the product of the transmittances
\* exp(-extinction * stepLength) of layers 0..k, it is non-increasing in k
\* and stays in [0, 1] (the stored extinction is not negative), and the rgb
\* written for layer k adds the slice's scattering integrated over the
\* slice, (S - S * T) / max(extinction, 0.00001), weighted by the
\* transmittance accumulated before layer k.
C13_FinalIntegration ==
    ret.op = "CS_FinalIntegration" =>
        /\ Len(ret.written) = Len(gpu.LightScattering)
        /\ \A k \in 1..Len(ret.written) :
               LET before == IF k = 1 THEN InitialAccumulated ELSE ret.written[k - 1]
                   now == ret.written[k]
               IN /\ InitialAccumulated.a = Float(1)
                  /\ before.a = TransmittanceBefore(k - 1)
                  /\ now.a = TransmittanceBefore(k)
                  /\ FLessEq(now.a, before.a)
                  /\ FLessEq(Float(0), now.a) /\ FLessEq(now.a, Float(1))
                  /\ \A c \in 1..3 :
                         (Fixed20(now.rgb[c]) - Fixed20(before.rgb[c])) * Pow2(OpticalDepth(k - 1))
                             = IntegratedOverSlice(k, c)

\* C13 witness: a column of three layers that all scatter and absorb; the
\* last layer still adds light although the transmittance has dropped
C13_Witness ==
    /\ ret.op = "CS_FinalIntegration"
    /\ Len(ret.written) = 3
    /\ \A k \in 1..3 : gpu.LightScattering[k].w.n > 0 /\ gpu.stepLengths[k].n > 0
                       /\ gpu.LightScattering[k].rgb[1].n > 0
    /\ FLessEq(ret.written[2].rgb[1], ret.written[3].rgb[1])
    /\ ret.written[2].rgb[1] # ret.written[3].rgb[1]
    /\ ret.written[3].a # ret.written[2].a

-----------------------------------------------------------------------------
(* Properties of CS_LightScattering *)

\* Every component of the cell's reprojected history UV lies in [0, 1]
HistoryUVInside ==
    \A i \in 1..3 :
        /\ 0 <= gpu.historyUV[i].n
        /\ gpu.historyUV[i].n <= Pow2(gpu.historyUV[i].e)

\* The cell of the thread is inside the grid
CellInsideGrid == \A i \in 1..3 : gpu.gridCoordinate[i] + 1 <= gpu.GridSizeInt[i]

\* C14: with temporal reprojection the history value is blended into a cell
\* (lerp by HistoryWeight) only if every component of the cell's reprojected
\* history UV lies in [0, 1] and HistoryWeight > 0; if a component lies
\* outside [0, 1] the history is discarded, the written value is the current
\* frame's value alone, and the cell takes HistoryMissSuperSampleCount
\* samples when it is inside the grid and exactly 1 sample when it is an
\* extra thread outside the grid.
C14_LightScattering ==
    ret.op = "CS_LightScattering" =>
        LET r == ret.result IN
        /\ r.blended => (HistoryUVInside /\ gpu.HistoryWeight.n > 0)
        /\ r.blended =>
               r.value = Max4Zero(Lerp4(CurrentScatteringAndExtinction(gpu, r.numSuperSamples),
                                        gpu.history, gpu.HistoryWeight))
        /\ ~HistoryUVInside =>
               /\ ~r.blended
               /\ r.written <=> CellInsideGrid
               /\ CellInsideGrid =>
                      /\ r.numSuperSamples = gpu.HistoryMissSuperSampleCount
                      /\ r.value = Max4Zero(CurrentScatteringAndExtinction(
                                                gpu, gpu.HistoryMissSuperSampleCount))
               /\ ~CellInsideGrid => r.numSuperSamples = 1

\* C14 witness: only the z component of the UV is beyond 1, HistoryWeight is
\* 1/2; the cell, inside the grid, takes four samples and writes a value
\* without the history
C14_Witness ==
    /\ ret.op = "CS_LightScattering"
    /\ gpu.historyUV = <<[n |-> 1, e |-> 1], Float(0), [n |-> 3, e |-> 1]>>
    /\ gpu.HistoryWeight = [n |-> 1, e |-> 1]
    /\ gpu.gridCoordinate = <<1, 1, 1>>
    /\ gpu.HistoryMissSuperSampleCount = 4
    /\ ret.result.numSuperSamples = 4
    /\ ~ret.result.blended
    /\ ret.result.written

-----------------------------------------------------------------------------
(* Properties of GetAtmosphericFog *)

\* The scaled scene depth of the pixel is below the depth threshold, in
\* units of 10^-7: sceneDepth * 0.0001 * AtmosphericFogDistanceScale against
\* the smaller of 100 * AtmosphericFogDistanceScale and
\* 0.997 * viewFar * 0.0001 * AtmosphericFogDistanceScale
BelowDepthThreshold ==
    LET distanceScale == gpu.atmosphericFog.AtmosphericFogDistanceScale.n
                             * Pow10(0 - gpu.atmosphericFog.AtmosphericFogDistanceScale.e)
        hundredKm == 1000000000 * distanceScale
        farPlane == 997 * gpu.viewFar * distanceScale
    IN gpu.sceneDepth * 1000 * distanceScale
           < (IF hundredKm <= farPlane THEN hundredKm ELSE farPlane)

\* AtmosphericFogSunPower * (sun + groundColor + inscatterColor) *
\* AtmosphericFogSunColor of the pixel
FogColor ==
    [i \in 1..3 |->
        DMul(DMul(gpu.atmosphericFog.AtmosphericFogSunPower,
                  DAdd(DAdd(gpu.sun[i], gpu.groundColor[i]), gpu.inscatterColor[i])),
             gpu.atmosphericFog.AtmosphericFogSunColor[i])]

\* C15: GetAtmosphericFog returns 0 in all four components whenever the
\* scaled scene depth is below the depth threshold (the smaller of
\* 100 * AtmosphericFogDistanceScale and 0.997 * viewFar * scale), whatever
\* the sun, view and fog parameters; only pixels at or beyond the threshold
\* return the sun + ground + inscatter colour with alpha 1.
C15_GetAtmosphericFog ==
    ret.op = "GetAtmosphericFog" =>
        /\ BelowDepthThreshold =>
               \A i \in 1..4 : ret.result[i].n = 0
        /\ ~BelowDepthThreshold =>
               /\ \A i \in 1..3 : ret.result[i] = FogColor[i]
               /\ ret.result[4] = Decimal(1, 0)

\* C15 witness: a pixel just below the far-plane limit with a sun colour
\* that is not black gets four zeros
C15_Witness ==
    /\ ret.op = "GetAtmosphericFog"
    /\ gpu.sceneDepth = 9969
    /\ gpu.viewFar = 10000
    /\ gpu.atmosphericFog.AtmosphericFogDistanceScale = Decimal(1, 0)
    /\ gpu.atmosphericFog.AtmosphericFogSunPower = Decimal(2, 0)
    /\ gpu.sun[1] = Decimal(1, 0)
    /\ BelowDepthThreshold
    /\ ret.result = <<Decimal(0, 0), Decimal(0, 0), Decimal(0, 0), Decimal(0, 0)>>

=============================================================================
